---- MODULE Spec2Model ----
(***************************************************************************)
(* Model of crates/cli-support/src/js/mod.rs of wasm-bindgen:              *)
(*   - the reference table (slab / slab_next / stack) that the generated   *)
(*     JS glue implements, with the semantics of the emitted JavaScript,   *)
(*     in debug and release builds and in strict and sloppy output;        *)
(*   - the generator's emission guard (exposed_globals) and the text it    *)
(*     appends to Context.globals / Context.imports.                       *)
(***************************************************************************)
EXTENDS Integers, Sequences, FiniteSets, TLC

VARIABLES
    config,       \* Bindgen options read by the generator (Context.config)
    slab,         \* JS array `slab`: slab[i+1] is the JS element slab[i]
    slab_named,   \* non-index properties of the array object `slab`
    slab_next,    \* JS variable `slab_next`
    stack,        \* JS array `stack`
    dropped_free, \* history: dropRef / takeObject was called on a handle of a free cell
    ledger,       \* history: the references the module holds to each handle of a
                  \* dynamic cell, and the largest number of live cells so far
    exposed_globals,            \* Context.exposed_globals
    required_internal_exports,  \* Context.required_internal_exports
    globals,      \* Context.globals, as the sequence of appended items
    imports,      \* Context.imports, as the sequence of appended items
    module,       \* Context.module: its export and import entries, in order, the
                  \* imports each exported function reaches, memory defined or imported
    memory_init,  \* Context.memory_init is Some(..)
    gen,          \* the last generator call: its Result, and whether the helper
                  \* requested had been exposed before
    pc,           \* position of the run: generating bindings, or the step of
                  \* finalize that comes next
    function_table_needed,  \* Context.function_table_needed
    imported_names,         \* Context.imported_names
    imported_identifiers,   \* Context.imported_identifiers
    exported_classes,       \* Context.exported_classes
    typescript,             \* Context.typescript, as the sequence of appended items
    classes_left,           \* write_classes: the classes taken out of
                            \* exported_classes that are still to be written
    error,                  \* the Err that generate or finalize returned, "" if none
    imported_statics,       \* Context.imported_statics
    original,               \* the JS objects `real.original` of the closures: the
                            \* pointer fields `a` and `b` of each
    memory_buffer,          \* the ArrayBuffer that `{mem}.buffer` is, by identity
    cache,                  \* the JS variables cachegetUint8Memory, ..: null or a view
    shim_run,               \* the method import whose target was generated last, and
                            \* how far the glue got with it: loaded, called, failed
    runtime                 \* the instances of an exported class at run time: the
                            \* wrappers, the WeakRefs, CLEANUPS_MAP, the calls of the
                            \* destructor export, the fault of the last call

rtvars  == <<slab, slab_named, slab_next, stack, dropped_free, ledger>>
genstate == <<config, exposed_globals, required_internal_exports, globals, imports,
              module, memory_init, gen, pc, function_table_needed, imported_names,
              imported_identifiers, exported_classes, typescript, classes_left,
              error, imported_statics>>
memvars == <<memory_buffer, cache>>
othervars == <<imported_statics, original, memvars, shim_run, runtime>>
extvars == <<typescript, classes_left, error, othervars>>
restvars == <<pc, function_table_needed, imported_names, imported_identifiers,
              exported_classes, extvars>>
genvars == <<exposed_globals, required_internal_exports, globals, imports,
             module, memory_init, gen, restvars>>
vars    == <<config, slab, slab_named, slab_next, stack, dropped_free, ledger,
             exposed_globals, required_internal_exports, globals, imports,
             module, memory_init, gen, pc, function_table_needed, imported_names,
             imported_identifiers, exported_classes, extvars>>

-----------------------------------------------------------------------------
(* Bounds of the model.                                                     *)

\* largest slab.length explored (4 seeded cells + dynamic cells)
MaxSlab == 6
\* largest reference count cloneRef is driven to
MaxCnt == 2
\* largest stack.length explored
MaxStack == 1
\* items in Context.globals up to which helpers are requested
MaxGlobals == 3

\* largest number of calls of free() on one instance
MaxFrees == 2

\* largest number of times the memory grows
MaxGrow == 6

\* host values handed to addHeapObject / addBorrowedObject
Values == {"a", "b"}

\* handles the module may pass: every even and odd handle up to one cell
\* past the largest slab, so free, live, seeded and out-of-range cells and
\* stack slots are all addressed
Handles == 0 .. (2 * MaxSlab + 1)

-----------------------------------------------------------------------------
(* Configuration.                                                           *)

\* the wrappers of the instances of an exported class that the glue makes,
\* and the pointer the module gives to each
Wrappers == {"w1", "w2"}
PtrOf(obj) == IF obj = "w1" THEN 1 ELSE 2
Ptrs == 0 .. 2

\* no wrapper made, no WeakRef, an empty CLEANUPS_MAP, no destructor call
InitRuntime ==
    [instances |-> [obj \in Wrappers |-> [state |-> "none", ptr |-> 0, frees |-> 0]],
     weakrefs  |-> [obj \in Wrappers |-> [state |-> "none", holdings |-> 0]],
     map       |-> [ptr \in Ptrs |-> "undefined"],
     calls     |-> [ptr \in Ptrs |-> 0],
     dangling  |-> FALSE,
     fault     |-> ""]

\* the typed-view accessors that memview emits, and the value null
Accessors == {"getUint8Memory", "getUint32Memory"}
Null == [t |-> "null"]

Configs ==
    { c \in [debug : BOOLEAN, nodejs : BOOLEAN,
             nodejs_experimental_modules : BOOLEAN,
             browser : BOOLEAN, no_modules : BOOLEAN, weak_refs : BOOLEAN] :
        /\ c.nodejs_experimental_modules => c.nodejs
        /\ ~(c.nodejs /\ c.browser)
        /\ ~(c.nodejs /\ c.no_modules)
        /\ ~(c.browser /\ c.no_modules) }

use_node_require == config.nodejs /\ ~config.nodejs_experimental_modules

\* finalize wraps the glue in an IIFE (no_modules), emits a CommonJS file
\* (`wasm = require(..)`) or an ES module (`import * as wasm`).  Only the ES
\* module is strict-mode code: in the two other outputs an assignment to a
\* property of a primitive number is silently ignored, in an ES module it
\* throws a TypeError.
StrictMode == ~config.no_modules /\ ~use_node_require

-----------------------------------------------------------------------------
(* JavaScript values held by slab cells and slab_next.                      *)

Num(n)         == [t |-> "number", n |-> n]
Undefined      == [t |-> "undefined"]
NaN            == [t |-> "NaN"]
Cell(obj, cnt) == [t |-> "object", obj |-> obj, cnt |-> cnt]

\* typeof(x) === 'number'
IsNumber(x)    == x.t = "number"
IsCell(x)      == x.t = "object"
IsUndefined(x) == x.t = "undefined"

\* x + d on a `cnt` field: undefined +- 1 and NaN +- 1 are NaN
JsAdd(x, d) == IF x.t = "number" THEN Num(x.n + d) ELSE NaN
\* x > 0: false for undefined and NaN
JsPositive(x) == x.t = "number" /\ x.n > 0

\* idx << 1 and idx >> 1; ToInt32 of an object or of undefined is 0
Shl1(x) == IF x.t = "number" THEN 2 * x.n ELSE 0
Shr1(h) == h \div 2
IsOdd(h) == h % 2 = 1

INITIAL_SLAB_VALUES == <<"undefined", "null", "true", "false">>
NumInitial == Len(INITIAL_SLAB_VALUES)

\* const slab = [{ obj: undefined }, { obj: null }, { obj: true }, { obj: false }];
\* the seeded cells have no `cnt` property
InitialSlab == [i \in 1 .. NumInitial |-> Cell(INITIAL_SLAB_VALUES[i], Undefined)]

-----------------------------------------------------------------------------
(* The reference table as one value, and property access on `slab`.         *)

Table(s, sn, nx, st) == [slab |-> s, slab_named |-> sn, slab_next |-> nx, stack |-> st]

NoNamed == [object |-> Undefined, undefined |-> Undefined]

\* slab[key]: an index, or the property name ToString(key) gives
\* ("[object Object]" for a cell, "undefined" for undefined)
SlabGet(T, key) ==
    IF key.t = "number"
    THEN IF key.n < Len(T.slab) THEN T.slab[key.n + 1] ELSE Undefined
    ELSE IF key.t = "object" THEN T.slab_named.object
    ELSE T.slab_named.undefined

\* slab[key] = v; a write at or past slab.length extends the array
SlabSet(T, key, v) ==
    IF key.t = "number"
    THEN IF key.n < Len(T.slab)
         THEN [T EXCEPT !.slab[key.n + 1] = v]
         ELSE [T EXCEPT !.slab =
                  [i \in 1 .. (key.n + 1) |->
                      IF i <= Len(T.slab) THEN T.slab[i]
                      ELSE IF i = key.n + 1 THEN v ELSE Undefined]]
    ELSE IF key.t = "object" THEN [T EXCEPT !.slab_named.object = v]
    ELSE [T EXCEPT !.slab_named.undefined = v]

\* outcome of a call: the table after it, the value returned, the fault thrown
Ok(T, v)     == [st |-> T, val |-> v, err |-> ""]
Throw(T, e)  == [st |-> T, val |-> "undefined", err |-> e]

-----------------------------------------------------------------------------
(* The generated reference-table functions.                                 *)

\* addHeapObject that does not advance the free list (no `slab_next = next;`)
addHeapObject_KeepsNext(T, obj) ==
    LET pushed == IF IsNumber(T.slab_next) /\ T.slab_next.n = Len(T.slab)
                  THEN [T EXCEPT !.slab = Append(T.slab, Num(Len(T.slab) + 1))]
                  ELSE T
        idx    == pushed.slab_next
        next   == SlabGet(pushed, idx)
    IN  IF config.debug /\ ~IsNumber(next)
        THEN Throw(pushed, "corrupt slab")
        ELSE Ok(SlabSet(pushed, idx, Cell(obj, Num(1))), Shl1(idx))

\* addHeapObject that stores the cell without a reference (`cnt: 0`)
addHeapObject_CountZero(T, obj) ==
    LET pushed == IF IsNumber(T.slab_next) /\ T.slab_next.n = Len(T.slab)
                  THEN [T EXCEPT !.slab = Append(T.slab, Num(Len(T.slab) + 1))]
                  ELSE T
        idx    == pushed.slab_next
        next   == SlabGet(pushed, idx)
    IN  IF config.debug /\ ~IsNumber(next)
        THEN Throw(pushed, "corrupt slab")
        ELSE Ok(SlabSet([pushed EXCEPT !.slab_next = next], idx, Cell(obj, Num(0))),
                Shl1(idx))

\* addHeapObject that appends a cell on every call and never takes one
\* from the free list
addHeapObject_AlwaysPush(T, obj) ==
    LET pushed == [T EXCEPT !.slab = Append(T.slab, T.slab_next)]
        idx    == Num(Len(T.slab))
    IN  Ok(SlabSet(pushed, idx, Cell(obj, Num(1))), Shl1(idx))

\* function addHeapObject(obj) {
\*     if (slab_next === slab.length) slab.push(slab.length + 1);
\*     const idx = slab_next;
\*     const next = slab[idx];
\*     [debug] if (typeof(next) !== 'number') throw new Error('corrupt slab');
\*     slab_next = next;
\*     slab[idx] = { obj, cnt: 1 };
\*     return idx << 1;
\* }
addHeapObject(T, obj) ==
    LET pushed == IF IsNumber(T.slab_next) /\ T.slab_next.n = Len(T.slab)
                  THEN [T EXCEPT !.slab = Append(T.slab, Num(Len(T.slab) + 1))]
                  ELSE T
        idx    == pushed.slab_next
        next   == SlabGet(pushed, idx)
    IN  IF config.debug /\ ~IsNumber(next)
        THEN Throw(pushed, "corrupt slab")
        ELSE Ok(SlabSet([pushed EXCEPT !.slab_next = next], idx, Cell(obj, Num(1))),
                Shl1(idx))

\* dropRef that stores the free-list link in the cell but leaves slab_next
\* alone (no `slab_next = idx;`)
dropRef_NoRecycle(T, h) ==
    LET idx   == Shr1(h)
        obj   == SlabGet(T, Num(idx))
        freed == SlabSet(T, Num(idx), T.slab_next)
    IN  IF config.debug /\ IsOdd(h)
        THEN Throw(T, "cannot drop ref of stack objects")
        ELSE IF idx < NumInitial THEN Ok(T, "undefined")
        ELSE IF config.debug /\ IsNumber(obj) THEN Throw(T, "corrupt slab")
        ELSE IF IsUndefined(obj) THEN Throw(T, "TypeError")
        ELSE IF IsNumber(obj)
             THEN IF StrictMode THEN Throw(T, "TypeError") ELSE Ok(freed, "undefined")
        ELSE LET cnt == JsAdd(obj.cnt, -1)
             IN  IF JsPositive(cnt)
                 THEN Ok(SlabSet(T, Num(idx), [obj EXCEPT !.cnt = cnt]), "undefined")
                 ELSE Ok(freed, "undefined")

\* dropRef without the `if (idx < 4) return;` that protects the seeded cells
dropRef_NoSeedGuard(T, h) ==
    LET idx   == Shr1(h)
        obj   == SlabGet(T, Num(idx))
        freed == [SlabSet(T, Num(idx), T.slab_next) EXCEPT !.slab_next = Num(idx)]
    IN  IF config.debug /\ IsOdd(h)
        THEN Throw(T, "cannot drop ref of stack objects")
        ELSE IF config.debug /\ IsNumber(obj) THEN Throw(T, "corrupt slab")
        ELSE IF IsUndefined(obj) THEN Throw(T, "TypeError")
        ELSE IF IsNumber(obj)
             THEN IF StrictMode THEN Throw(T, "TypeError") ELSE Ok(freed, "undefined")
        ELSE LET cnt == JsAdd(obj.cnt, -1)
             IN  IF JsPositive(cnt)
                 THEN Ok(SlabSet(T, Num(idx), [obj EXCEPT !.cnt = cnt]), "undefined")
                 ELSE Ok(freed, "undefined")

\* dropRef of a debug build without the test of the cell's type
dropRef_Unchecked(T, h) ==
    LET idx   == Shr1(h)
        obj   == SlabGet(T, Num(idx))
        freed == [SlabSet(T, Num(idx), T.slab_next) EXCEPT !.slab_next = Num(idx)]
    IN  IF config.debug /\ IsOdd(h)
        THEN Throw(T, "cannot drop ref of stack objects")
        ELSE IF idx < NumInitial THEN Ok(T, "undefined")
        ELSE IF IsUndefined(obj) THEN Throw(T, "TypeError")
        ELSE IF IsNumber(obj)
             THEN IF StrictMode THEN Throw(T, "TypeError") ELSE Ok(freed, "undefined")
        ELSE LET cnt == JsAdd(obj.cnt, -1)
             IN  IF JsPositive(cnt)
                 THEN Ok(SlabSet(T, Num(idx), [obj EXCEPT !.cnt = cnt]), "undefined")
                 ELSE Ok(freed, "undefined")

\* dropRef that links the freed cell to itself (`slab[idx] = idx;`)
dropRef_SelfLink(T, h) ==
    LET idx   == Shr1(h)
        obj   == SlabGet(T, Num(idx))
        freed == [SlabSet(T, Num(idx), Num(idx)) EXCEPT !.slab_next = Num(idx)]
    IN  IF config.debug /\ IsOdd(h)
        THEN Throw(T, "cannot drop ref of stack objects")
        ELSE IF idx < NumInitial THEN Ok(T, "undefined")
        ELSE IF config.debug /\ IsNumber(obj) THEN Throw(T, "corrupt slab")
        ELSE IF IsUndefined(obj) THEN Throw(T, "TypeError")
        ELSE IF IsNumber(obj)
             THEN IF StrictMode THEN Throw(T, "TypeError") ELSE Ok(freed, "undefined")
        ELSE LET cnt == JsAdd(obj.cnt, -1)
             IN  IF JsPositive(cnt)
                 THEN Ok(SlabSet(T, Num(idx), [obj EXCEPT !.cnt = cnt]), "undefined")
                 ELSE Ok(freed, "undefined")

\* dropRef that keeps the cell when its count reaches zero
\* (`if (obj.cnt >= 0) return;`)
dropRef_NeverFrees(T, h) ==
    LET idx   == Shr1(h)
        obj   == SlabGet(T, Num(idx))
        freed == [SlabSet(T, Num(idx), T.slab_next) EXCEPT !.slab_next = Num(idx)]
    IN  IF config.debug /\ IsOdd(h)
        THEN Throw(T, "cannot drop ref of stack objects")
        ELSE IF idx < NumInitial THEN Ok(T, "undefined")
        ELSE IF config.debug /\ IsNumber(obj) THEN Throw(T, "corrupt slab")
        ELSE IF IsUndefined(obj) THEN Throw(T, "TypeError")
        ELSE IF IsNumber(obj)
             THEN IF StrictMode THEN Throw(T, "TypeError") ELSE Ok(freed, "undefined")
        ELSE LET cnt == JsAdd(obj.cnt, -1)
             IN  IF JsPositive(cnt) \/ cnt = Num(0)
                 THEN Ok(SlabSet(T, Num(idx), [obj EXCEPT !.cnt = cnt]), "undefined")
                 ELSE Ok(freed, "undefined")

\* function dropRef(idx) {
\*     [debug] if ((idx & 1) === 1) throw new Error('cannot drop ref of stack objects');
\*     idx = idx >> 1;
\*     if (idx < 4) return;
\*     let obj = slab[idx];
\*     [debug] if (typeof(obj) === 'number') throw new Error('corrupt slab');
\*     obj.cnt -= 1;
\*     if (obj.cnt > 0) return;
\*     slab[idx] = slab_next;
\*     slab_next = idx;
\* }
dropRef(T, h) ==
    LET idx   == Shr1(h)
        obj   == SlabGet(T, Num(idx))
        freed == [SlabSet(T, Num(idx), T.slab_next) EXCEPT !.slab_next = Num(idx)]
    IN  IF config.debug /\ IsOdd(h)
        THEN Throw(T, "cannot drop ref of stack objects")
        ELSE IF idx < NumInitial THEN Ok(T, "undefined")
        ELSE IF config.debug /\ IsNumber(obj) THEN Throw(T, "corrupt slab")
        ELSE IF IsUndefined(obj) THEN Throw(T, "TypeError")
        ELSE IF IsNumber(obj)
             \* obj.cnt reads undefined; the write to a primitive throws in
             \* strict code and is ignored otherwise; undefined > 0 is false
             THEN IF StrictMode THEN Throw(T, "TypeError") ELSE Ok(freed, "undefined")
        ELSE LET cnt == JsAdd(obj.cnt, -1)
             IN  IF JsPositive(cnt)
                 THEN Ok(SlabSet(T, Num(idx), [obj EXCEPT !.cnt = cnt]), "undefined")
                 ELSE Ok(freed, "undefined")

\* function getObject(idx) {
\*     if ((idx & 1) === 1) {
\*         return stack[idx >> 1];
\*     } else {
\*         const val = slab[idx >> 1];
\*         [debug] if (typeof(val) === 'number') throw new Error('corrupt slab');
\*         return val.obj;
\*     }
\* }
getObject(T, h) ==
    LET i   == Shr1(h)
        val == SlabGet(T, Num(i))
    IN  IF IsOdd(h)
        THEN Ok(T, IF i < Len(T.stack) THEN T.stack[i + 1] ELSE "undefined")
        ELSE IF config.debug /\ IsNumber(val) THEN Throw(T, "corrupt slab")
        ELSE IF IsUndefined(val) THEN Throw(T, "TypeError")
        ELSE IF IsNumber(val) THEN Ok(T, "undefined")
        ELSE Ok(T, val.obj)

\* takeObject that drops the reference before it reads the value
takeObject_DropFirst(T, h) ==
    LET dropped == dropRef(T, h)
        got     == getObject(dropped.st, h)
    IN  IF dropped.err # "" THEN dropped
        ELSE IF got.err # "" THEN got
        ELSE Ok(dropped.st, got.val)

\* function takeObject(idx) {
\*     const ret = getObject(idx);
\*     dropRef(idx);
\*     return ret;
\* }
takeObject(T, h) ==
    LET got     == getObject(T, h)
        dropped == dropRef(got.st, h)
    IN  IF got.err # "" THEN got
        ELSE IF dropped.err # "" THEN dropped
        ELSE Ok(dropped.st, got.val)

\* clone_ref that returns the handle without counting the new reference
clone_ref_NoIncrement(T, h) ==
    IF IsOdd(h) THEN addHeapObject(T, getObject(T, h).val) ELSE Ok(T, h)

\* __wbindgen_object_clone_ref:
\* function(idx) {
\*     if ((idx & 1) === 1) return addHeapObject(getObject(idx));
\*     const val = slab[idx >> 1];
\*     [debug] if (typeof(val) === 'number') throw new Error('corrupt slab');
\*     val.cnt += 1;
\*     return idx;
\* }
wbindgen_object_clone_ref(T, h) ==
    LET val == SlabGet(T, Num(Shr1(h)))
    IN  IF IsOdd(h) THEN addHeapObject(T, getObject(T, h).val)
        ELSE IF config.debug /\ IsNumber(val) THEN Throw(T, "corrupt slab")
        ELSE IF IsUndefined(val) THEN Throw(T, "TypeError")
        ELSE IF IsNumber(val)
             THEN IF StrictMode THEN Throw(T, "TypeError") ELSE Ok(T, h)
        ELSE Ok(SlabSet(T, Num(Shr1(h)), [val EXCEPT !.cnt = JsAdd(val.cnt, 1)]), h)

\* addBorrowedObject that returns the stack index untagged
addBorrowedObject_Untagged(T, obj) ==
    Ok([T EXCEPT !.stack = Append(T.stack, obj)], 2 * Len(T.stack))

\* function addBorrowedObject(obj) {
\*     stack.push(obj);
\*     return ((stack.length - 1) << 1) | 1;
\* }
addBorrowedObject(T, obj) ==
    Ok([T EXCEPT !.stack = Append(T.stack, obj)], 2 * Len(T.stack) + 1)

\* The release of a borrowed argument when the call that borrowed it ends:
\* `stack.pop()`, emitted by the export glue.
releaseBorrowed(T) ==
    Ok([T EXCEPT !.stack = SubSeq(T.stack, 1, Len(T.stack) - 1)], "undefined")

\* assertStackEmpty (debug builds only):
\* function() {
\*     if (stack.length === 0) return;
\*     throw new Error('stack is not currently empty');
\* }
assertStackEmpty(T) ==
    IF Len(T.stack) = 0 THEN Ok(T, "undefined")
    ELSE Throw(T, "stack is not currently empty")

\* assertSlabEmpty (debug builds only):
\* function() {
\*     for (let i = 4; i < slab.length; i++) {
\*         if (typeof(slab[i]) === 'number') continue;
\*         throw new Error('slab is not currently empty');
\*     }
\* }
assertSlabEmpty(T) ==
    IF \A i \in (NumInitial + 1) .. Len(T.slab) : IsNumber(T.slab[i])
    THEN Ok(T, "undefined")
    ELSE Throw(T, "slab is not currently empty")

-----------------------------------------------------------------------------
(* The generator: Context and its expose_* helpers.  A helper is a function *)
(* from Context to Context; a helper that returns Result<(), Error> is a    *)
(* function to a Context and an error.  globals is the sequence of the      *)
(* items appended by Context::global, an item being the text of the         *)
(* template and the text formatted into it.                                 *)

\* an item: the template and the sequence of texts formatted into it
Item(text, args) == [text |-> text, args |-> args]

Context == [exposed_globals |-> exposed_globals,
            required_internal_exports |-> required_internal_exports,
            globals |-> globals,
            imports |-> imports,
            memory_init |-> memory_init]

ROk(C)      == [ctx |-> C, err |-> ""]
Bail(C, e)  == [ctx |-> C, err |-> e]

\* self.exposed_globals.insert(name): FALSE when the name was there already
insert(C, name) == [C EXCEPT !.exposed_globals = @ \cup {name}]

\* fn global(&mut self, s: &str): pads with newlines and appends s
global(C, s) == [C EXCEPT !.globals = Append(@, s)]

\* str::starts_with
starts_with(s, prefix) ==
    /\ Len(s) >= Len(prefix)
    /\ SubSeq(s, 1, Len(prefix)) = prefix

\* str::ends_with
ends_with(s, suffix) ==
    /\ Len(s) >= Len(suffix)
    /\ SubSeq(s, Len(s) - Len(suffix) + 1, Len(s)) = suffix

\* fn export(&mut self, name, contents, None): the form of the export
\* follows the output kind and the start of the contents, the item goes
\* through global()
export(C, name, contents) ==
    global(C, Item(IF use_node_require
                   THEN IF starts_with(contents, "class")
                        THEN "{1} module.exports.{0} = {0};"
                        ELSE "module.exports.{} = {};"
                   ELSE IF config.no_modules
                   THEN IF starts_with(contents, "class")
                        THEN "{1} __exports.{0} = {0};"
                        ELSE "__exports.{} = {};"
                   ELSE IF starts_with(contents, "function")
                   THEN "export function {}{}"
                   ELSE IF starts_with(contents, "class")
                   THEN "export {}"
                   ELSE "export const {} = {};",
                   <<name, contents>>))

\* export with Some(comments): the comments are pushed to globals first
export_commented(C, name, contents, comments) ==
    export(IF comments = "" THEN C
           ELSE [C EXCEPT !.globals = Append(@, Item(comments, <<>>))],
           name, contents)

\* An entry of the module's import section.
Import(origin, field) == [module |-> origin, field |-> field]

\* the import of the linear memory: memory() asserts that it is env.memory
EnvMemory == Import("env", "memory")

\* the entry imports the linear memory (External::Memory); the function
\* imports of the model have other fields
IsMemoryImport(i) == i.field = "memory"

\* self.module.memory_section().is_some(): a module has a memory of its own
\* or imports one
memory_section(M) ==
    \A i \in 1 .. Len(M.imports) : ~IsMemoryImport(M.imports[i])

\* Context.module: the fields of the export entries and the import entries, in
\* the order of their sections; the import fields that the function behind an
\* export reaches, as pairs <<export field, import field>>; the memory's
\* limits being shared; the module having an export section
Module(exports, mimports, uses, shared) ==
    [exports |-> exports, imports |-> mimports, uses |-> uses, shared |-> shared,
     export_section |-> TRUE]

\* the module M without an export section: module.export_section() is None
\* and no Section::Export is among its sections
WithoutExportSection(M) == [M EXCEPT !.exports = <<>>, !.export_section = FALSE]

\* fn require_internal_export(&mut self, name) -> Result<(), Error>
require_internal_export(C, name) ==
    IF name \in C.required_internal_exports THEN ROk(C)
    ELSE LET c == [C EXCEPT !.required_internal_exports = @ \cup {name}]
         IN  IF \E i \in 1 .. Len(module.exports) : module.exports[i] = name
             THEN ROk(c)
             ELSE Bail(c, "the exported function is required but was not found")

\* fn memory(&mut self) -> &'static str: the name the glue reads memory by
memory_name == IF memory_section(module) THEN "wasm.memory" ELSE "memory"

\* memory() records the limits of an imported memory in memory_init
memory(C) ==
    IF memory_section(module) THEN C ELSE [C EXCEPT !.memory_init = TRUE]

\* the text a debug build formats into a template, nothing otherwise
DebugOnly(d) == IF config.debug THEN <<d>> ELSE <<>>

expose_global_stack(C) ==
    IF "stack" \in C.exposed_globals THEN C
    ELSE LET c == global(insert(C, "stack"), Item("const stack = [];", <<>>))
         IN  IF config.debug
             THEN export(c, "assertStackEmpty", "function() { stack.length === 0 }")
             ELSE c

expose_global_slab(C) ==
    IF "slab" \in C.exposed_globals THEN C
    ELSE LET c == global(insert(C, "slab"),
                         Item("const slab = [{}];", INITIAL_SLAB_VALUES))
         IN  IF config.debug
             THEN export(c, "assertSlabEmpty", "function() { for (let i = {}; ...) }")
             ELSE c

\* expose_global_slab_next that appends its text before it exposes the slab
expose_global_slab_next_First(C) ==
    IF "slab_next" \in C.exposed_globals THEN C
    ELSE expose_global_slab(global(insert(C, "slab_next"),
                                   Item("let slab_next = slab.length;", <<>>)))

expose_global_slab_next(C) ==
    IF "slab_next" \in C.exposed_globals THEN C
    ELSE global(expose_global_slab(insert(C, "slab_next")),
                Item("let slab_next = slab.length;", <<>>))

expose_drop_ref(C) ==
    IF "drop_ref" \in C.exposed_globals THEN C
    ELSE global(expose_global_slab_next(expose_global_slab(insert(C, "drop_ref"))),
                Item("function dropRef(idx) { {} {} {} }",
                     DebugOnly("validate_owned, corrupt slab")))

expose_get_object(C) ==
    IF "get_object" \in C.exposed_globals THEN C
    ELSE global(expose_global_slab(expose_global_stack(insert(C, "get_object"))),
                Item("function getObject(idx) { {} }", DebugOnly("corrupt slab")))

expose_borrowed_objects(C) ==
    IF "borrowed_objects" \in C.exposed_globals THEN C
    ELSE global(expose_global_stack(insert(C, "borrowed_objects")),
                Item("function addBorrowedObject(obj) { }", <<>>))

expose_take_object(C) ==
    IF "take_object" \in C.exposed_globals THEN C
    ELSE global(expose_drop_ref(expose_get_object(insert(C, "take_object"))),
                Item("function takeObject(idx) { }", <<>>))

expose_add_heap_object(C) ==
    IF "add_heap_object" \in C.exposed_globals THEN C
    ELSE global(expose_global_slab_next(expose_global_slab(insert(C, "add_heap_object"))),
                Item("function addHeapObject(obj) { {} }", DebugOnly("corrupt slab")))

\* memview without the exposed_globals guard
memview_Unguarded(C, name, js) ==
    global(memory(insert(C, name)),
           Item("let cache{name} = null; function {name}() { new {js}({mem}.buffer) }",
                <<name, js, memory_name>>))

\* fn memview(&mut self, name, js)
memview(C, name, js) ==
    IF name \in C.exposed_globals THEN C
    ELSE global(memory(insert(C, name)),
                Item("let cache{name} = null; function {name}() { new {js}({mem}.buffer) }",
                     <<name, js, memory_name>>))

expose_uint8_memory(C)  == memview(C, "getUint8Memory", "Uint8Array")
expose_uint32_memory(C) == memview(C, "getUint32Memory", "Uint32Array")

\* fn arrayget(&mut self, name, mem, size)
arrayget(C, name, mem, size) ==
    IF name \in C.exposed_globals THEN C
    ELSE global(insert(C, name),
                Item("function {name}(ptr, len) { {mem}().subarray(ptr / {size}, ..) }",
                     <<name, mem, size>>))

expose_get_array_u8_from_wasm(C) ==
    arrayget(expose_uint8_memory(C), "getArrayU8FromWasm", "getUint8Memory", "1")

expose_get_array_u32_from_wasm(C) ==
    arrayget(expose_uint32_memory(C), "getArrayU32FromWasm", "getUint32Memory", "4")

expose_get_array_js_value_from_wasm(C) ==
    IF "get_array_js_value_from_wasm" \in C.exposed_globals THEN C
    ELSE global(expose_take_object(expose_uint32_memory(
                    insert(C, "get_array_js_value_from_wasm"))),
                Item("function getArrayJsValueFromWasm(ptr, len) { }", <<>>))

expose_text_encoder(C) ==
    IF "text_encoder" \in C.exposed_globals THEN C
    ELSE LET c == insert(C, "text_encoder")
             bound ==
                IF config.nodejs_experimental_modules
                THEN [c EXCEPT !.imports =
                         Append(@, Item("import { TextEncoder } from 'util';", <<>>))]
                ELSE IF config.nodejs
                THEN global(c, Item("const TextEncoder = require('util').TextEncoder;", <<>>))
                ELSE IF ~(config.browser \/ config.no_modules)
                THEN global(c, Item("const TextEncoder = typeof self === 'object' && self.TextEncoder ? ..",
                                    <<>>))
                ELSE c
         IN  global(bound, Item("let cachedEncoder = new TextEncoder('utf-8');", <<>>))

expose_text_decoder(C) ==
    IF "text_decoder" \in C.exposed_globals THEN C
    ELSE LET c == insert(C, "text_decoder")
             bound ==
                IF config.nodejs_experimental_modules
                THEN [c EXCEPT !.imports =
                         Append(@, Item("import { TextDecoder } from 'util';", <<>>))]
                ELSE IF config.nodejs
                THEN global(c, Item("const TextDecoder = require('util').TextDecoder;", <<>>))
                ELSE IF ~(config.browser \/ config.no_modules)
                THEN global(c, Item("const TextDecoder = typeof self === 'object' && self.TextDecoder ? ..",
                                    <<>>))
                ELSE c
         IN  global(bound, Item("let cachedDecoder = new TextDecoder('utf-8');", <<>>))

\* the memory is shared: read from the memory section, else from the limits
\* memory() recorded of the imported memory
is_shared == module.shared

expose_get_string_from_wasm(C) ==
    IF "get_string_from_wasm" \in C.exposed_globals THEN C
    ELSE global(memory(expose_uint8_memory(expose_text_decoder(
                    insert(C, "get_string_from_wasm")))),
                Item("function getStringFromWasm(ptr, len) { getUint8Memory().{}(ptr, ptr + len) }",
                     <<IF is_shared THEN "slice" ELSE "subarray">>))

expose_pass_string_to_wasm(C) ==
    IF "pass_string_to_wasm" \in C.exposed_globals THEN ROk(C)
    ELSE LET r == require_internal_export(insert(C, "pass_string_to_wasm"),
                                          "__wbindgen_malloc")
         IN  IF r.err # "" THEN r
             ELSE ROk(global(expose_uint8_memory(expose_text_encoder(r.ctx)),
                             Item("function passStringToWasm(arg) { {} }",
                                  DebugOnly("expected a string argument"))))

\* fn pass_array_to_wasm(&mut self, name, delegate, size) -> Result<(), Error>
pass_array_to_wasm(C, name, delegate, size) ==
    IF name \in C.exposed_globals THEN ROk(C)
    ELSE LET r == require_internal_export(insert(C, name), "__wbindgen_malloc")
         IN  IF r.err # "" THEN r
             ELSE ROk(global(r.ctx, Item("function {}(arg) { {}().set(arg, ptr / {size}) }",
                                         <<name, delegate, size>>)))

expose_pass_array8_to_wasm(C) ==
    pass_array_to_wasm(expose_uint8_memory(C), "passArray8ToWasm", "getUint8Memory", "1")

expose_pass_array_jsvalue_to_wasm(C) ==
    IF "pass_array_jsvalue" \in C.exposed_globals THEN ROk(C)
    ELSE LET r == require_internal_export(insert(C, "pass_array_jsvalue"),
                                          "__wbindgen_malloc")
         IN  IF r.err # "" THEN r
             ELSE ROk(global(expose_add_heap_object(expose_uint32_memory(r.ctx)),
                             Item("function passArrayJsValueToWasm(array) { }", <<>>)))

expose_global_argument_ptr(C) ==
    IF "global_argument_ptr" \in C.exposed_globals THEN ROk(C)
    ELSE LET r == require_internal_export(insert(C, "global_argument_ptr"),
                                          "__wbindgen_global_argument_ptr")
         IN  IF r.err # "" THEN r
             ELSE ROk(global(r.ctx, Item("function globalArgumentPtr() { }", <<>>)))

expose_get_global_argument(C) ==
    IF "get_global_argument" \in C.exposed_globals THEN ROk(C)
    ELSE LET r == expose_global_argument_ptr(
                      expose_uint32_memory(insert(C, "get_global_argument")))
         IN  IF r.err # "" THEN r
             ELSE ROk(global(r.ctx, Item("function getGlobalArgument(arg) { }", <<>>)))

\* fn expose_u32_cvt_shim(&mut self) -> &'static str
expose_u32_cvt_shim(C) ==
    IF "u32CvtShim" \in C.exposed_globals THEN C
    ELSE global(insert(C, "u32CvtShim"),
                Item("const {} = new Uint32Array(2);", <<"u32CvtShim">>))

\* fn expose_int64_cvt_shim(&mut self) -> &'static str
expose_int64_cvt_shim(C) ==
    IF "int64CvtShim" \in C.exposed_globals THEN C
    ELSE global(expose_u32_cvt_shim(insert(C, "int64CvtShim")),
                Item("const {} = new BigInt64Array({}.buffer);",
                     <<"int64CvtShim", "u32CvtShim">>))

\* fn expose_uint64_cvt_shim(&mut self) -> &'static str
expose_uint64_cvt_shim(C) ==
    IF "uint64CvtShim" \in C.exposed_globals THEN C
    ELSE global(expose_u32_cvt_shim(insert(C, "uint64CvtShim")),
                Item("const {} = new BigUint64Array({}.buffer);",
                     <<"uint64CvtShim", "u32CvtShim">>))

-----------------------------------------------------------------------------
(* finalize: the internal shims it binds and the passes over the module.    *)

Placeholder == "__wbindgen_placeholder__"

\* fn wasm_import_needed(&self, name: &str) -> bool
wasm_import_needed(name) ==
    \E i \in 1 .. Len(module.imports) :
        module.imports[i] = Import(Placeholder, name)

\* The shims finalize binds before the passes over the module, in the order
\* of the bind calls.
Shims ==
    << "__wbindgen_object_clone_ref", "__wbindgen_object_drop_ref",
       "__wbindgen_string_new", "__wbindgen_number_new", "__wbindgen_number_get",
       "__wbindgen_is_null", "__wbindgen_is_undefined", "__wbindgen_boolean_get",
       "__wbindgen_symbol_new", "__wbindgen_is_symbol", "__wbindgen_is_object",
       "__wbindgen_is_function", "__wbindgen_is_string", "__wbindgen_string_get",
       "__wbindgen_cb_drop", "__wbindgen_cb_forget", "__wbindgen_json_parse",
       "__wbindgen_json_serialize", "__wbindgen_jsval_eq", "__wbindgen_memory",
       "__wbindgen_rethrow" >>

\* The closure handed to bind for the shim: the helpers it exposes, in its
\* order; `?` returns the first error.
shim_exposes(C, name) ==
    CASE name = "__wbindgen_object_clone_ref" ->
            ROk(expose_get_object(expose_add_heap_object(C)))
      [] name = "__wbindgen_object_drop_ref" -> ROk(expose_drop_ref(C))
      [] name \in {"__wbindgen_string_new", "__wbindgen_json_parse"} ->
            ROk(expose_get_string_from_wasm(expose_add_heap_object(C)))
      [] name = "__wbindgen_number_new" -> ROk(expose_add_heap_object(C))
      [] name = "__wbindgen_number_get" ->
            ROk(expose_uint8_memory(expose_get_object(C)))
      [] name \in {"__wbindgen_is_null", "__wbindgen_is_undefined",
                   "__wbindgen_boolean_get", "__wbindgen_is_symbol",
                   "__wbindgen_is_object", "__wbindgen_is_function",
                   "__wbindgen_is_string", "__wbindgen_jsval_eq"} ->
            ROk(expose_get_object(C))
      [] name = "__wbindgen_symbol_new" ->
            ROk(expose_add_heap_object(expose_get_string_from_wasm(C)))
      [] name = "__wbindgen_string_get" ->
            LET r == expose_pass_string_to_wasm(C)
            IN  IF r.err # "" THEN r
                ELSE ROk(expose_uint32_memory(expose_get_object(r.ctx)))
      [] name \in {"__wbindgen_cb_drop", "__wbindgen_cb_forget"} ->
            ROk(expose_drop_ref(C))
      [] name = "__wbindgen_json_serialize" ->
            LET r == expose_pass_string_to_wasm(expose_get_object(C))
            IN  IF r.err # "" THEN r ELSE ROk(expose_uint32_memory(r.ctx))
      [] name = "__wbindgen_memory" -> ROk(memory(expose_add_heap_object(C)))
      [] name = "__wbindgen_rethrow" -> ROk(expose_take_object(C))
      [] name = "__wbindgen_throw" -> ROk(expose_get_string_from_wasm(C))

\* The function text the closure returns.
shim_contents(name) ==
    CASE name = "__wbindgen_object_clone_ref" ->
            "function(idx) { if ((idx & 1) === 1) return addHeapObject(getObject(idx)); const val = slab[idx >> 1]; {} return idx; }"
      [] name = "__wbindgen_object_drop_ref" -> "function(i) { dropRef(i); }"
      [] name = "__wbindgen_string_new" ->
            "function(p, l) { return addHeapObject(getStringFromWasm(p, l)); }"
      [] name = "__wbindgen_number_new" -> "function(i) { return addHeapObject(i); }"
      [] name = "__wbindgen_number_get" ->
            "function(n, invalid) { let obj = getObject(n); .. getUint8Memory()[invalid] = 1; return 0; }"
      [] name = "__wbindgen_is_null" ->
            "function(idx) { return getObject(idx) === null ? 1 : 0; }"
      [] name = "__wbindgen_is_undefined" ->
            "function(idx) { return getObject(idx) === undefined ? 1 : 0; }"
      [] name = "__wbindgen_boolean_get" ->
            "function(i) { let v = getObject(i); if (typeof(v) === 'boolean') .. }"
      [] name = "__wbindgen_symbol_new" ->
            "function(ptr, len) { .. a = Symbol(getStringFromWasm(ptr, len)); return addHeapObject(a); }"
      [] name = "__wbindgen_is_symbol" ->
            "function(i) { return typeof(getObject(i)) === 'symbol' ? 1 : 0; }"
      [] name = "__wbindgen_is_object" ->
            "function(i) { const val = getObject(i); return typeof(val) === 'object' && val !== null ? 1 : 0; }"
      [] name = "__wbindgen_is_function" ->
            "function(i) { return typeof(getObject(i)) === 'function' ? 1 : 0; }"
      [] name = "__wbindgen_is_string" ->
            "function(i) { return typeof(getObject(i)) === 'string' ? 1 : 0; }"
      [] name = "__wbindgen_string_get" ->
            "function(i, len_ptr) { let obj = getObject(i); .. passStringToWasm(obj); getUint32Memory()[len_ptr / 4] = len; return ptr; }"
      [] name = "__wbindgen_cb_drop" ->
            "function(i) { let obj = getObject(i).original; obj.a = obj.b = 0; dropRef(i); }"
      [] name = "__wbindgen_cb_forget" -> "function(i) { dropRef(i); }"
      [] name = "__wbindgen_json_parse" ->
            "function(ptr, len) { return addHeapObject(JSON.parse(getStringFromWasm(ptr, len))); }"
      [] name = "__wbindgen_json_serialize" ->
            "function(idx, ptrptr) { .. passStringToWasm(JSON.stringify(getObject(idx))); getUint32Memory()[ptrptr / 4] = ptr; return len; }"
      [] name = "__wbindgen_jsval_eq" ->
            "function(a, b) { return getObject(a) === getObject(b) ? 1 : 0; }"
      [] name = "__wbindgen_memory" ->
            IF memory_section(module)
            THEN "function() { return addHeapObject(wasm.memory); }"
            ELSE "function() { return addHeapObject(memory); }"
      [] name = "__wbindgen_rethrow" -> "function(idx) { throw takeObject(idx); }"
      [] name = "__wbindgen_throw" ->
            "function(ptr, len) { throw new Error(getStringFromWasm(ptr, len)); }"

\* bind without the test of wasm_import_needed
bind_Unconditional(C, name) ==
    LET r == shim_exposes(C, name)
    IN  IF r.err # ""
        THEN Bail(r.ctx, "failed to generate internal JS function")
        ELSE ROk(export(r.ctx, name, shim_contents(name)))

\* bind that runs the closure but does not export the shim it returns
bind_NoExport(C, name) ==
    IF ~wasm_import_needed(name) THEN ROk(C)
    ELSE LET r == shim_exposes(C, name)
         IN  IF r.err # ""
             THEN Bail(r.ctx, "failed to generate internal JS function")
             ELSE ROk(r.ctx)

\* fn bind(&mut self, name, f) -> Result<(), Error>
bind(C, name) ==
    IF ~wasm_import_needed(name) THEN ROk(C)
    ELSE LET r == shim_exposes(C, name)
         IN  IF r.err # ""
             THEN Bail(r.ctx, "failed to generate internal JS function")
             ELSE ROk(export(r.ctx, name, shim_contents(name)))

\* the bind calls of finalize for Shims[i], Shims[i + 1], ..: `?` ends them
\* at the first error
RECURSIVE bind_from(_, _)
bind_from(C, i) ==
    IF i > Len(Shims) THEN ROk(C)
    ELSE LET r == bind(C, Shims[i])
         IN  IF r.err # "" THEN r ELSE bind_from(r.ctx, i + 1)

\* fn create_memory_export(&mut self)
create_memory_export(C) ==
    IF ~C.memory_init THEN C
    ELSE export(C, "memory", "new WebAssembly.Memory({initial:{},maximum:{}})")

\* unexport_unused_internal_exports that drops the required exports too
unexport_unused_internal_exports_DropRequired(M, required) ==
    LET keep(field) == ~starts_with(field, "__wbindgen")
    IN  [M EXCEPT !.exports = SelectSeq(@, keep)]

\* fn unexport_unused_internal_exports(&mut self): retain() keeps the entries
\* that satisfy the predicate, in their order
unexport_unused_internal_exports(M, required) ==
    LET keep(field) == ~starts_with(field, "__wbindgen") \/ field \in required
    IN  [M EXCEPT !.exports = SelectSeq(@, keep)]

\* fn export_table(&mut self)
export_table(M, needed) ==
    IF ~needed THEN M
    ELSE IF ~M.export_section THEN M    \* no section matches Section::Export
    ELSE [M EXCEPT !.exports = Append(@, "__wbg_function_table")]

\* The dead-code pass over the module, an external transform: exports are
\* roots and stay; an imported function stays when the function behind some
\* export reaches it; the memory import stays.
gc(M) ==
    LET live(i) == \/ IsMemoryImport(i)
                   \/ \E k \in 1 .. Len(M.exports) : <<M.exports[k], i.field>> \in M.uses
    IN  [M EXCEPT !.imports = SelectSeq(@, live)]

\* the origin that names the glue module: "./" followed by module_name
GlueOrigin == "./module_name"

MathFields ==
    { "Math_acos", "Math_asin", "Math_atan", "Math_atan2", "Math_cbrt", "Math_cosh",
      "Math_expm1", "Math_hypot", "Math_log1p", "Math_sinh", "Math_tan", "Math_tanh" }

\* format!("__wbindgen_{}", import.field()) for the fields that are bound
renamed_import(field) ==
    CASE field = "Math_acos"  -> "__wbindgen_Math_acos"
      [] field = "Math_asin"  -> "__wbindgen_Math_asin"
      [] field = "Math_atan"  -> "__wbindgen_Math_atan"
      [] field = "Math_atan2" -> "__wbindgen_Math_atan2"
      [] field = "Math_cbrt"  -> "__wbindgen_Math_cbrt"
      [] field = "Math_cosh"  -> "__wbindgen_Math_cosh"
      [] field = "Math_expm1" -> "__wbindgen_Math_expm1"
      [] field = "Math_hypot" -> "__wbindgen_Math_hypot"
      [] field = "Math_log1p" -> "__wbindgen_Math_log1p"
      [] field = "Math_sinh"  -> "__wbindgen_Math_sinh"
      [] field = "Math_tan"   -> "__wbindgen_Math_tan"
      [] field = "Math_tanh"  -> "__wbindgen_Math_tanh"

\* the loop body without the branch for the placeholder origin
rewrite_import_SkipPlaceholder(i) ==
    IF i.module # "env" THEN i
    ELSE IF i.field = "memory" THEN Import(GlueOrigin, i.field)
    ELSE IF i.field \in MathFields THEN Import(GlueOrigin, renamed_import(i.field))
    ELSE i

\* the loop body of _rewrite_imports for one import entry
rewrite_import(i) ==
    IF i.module = Placeholder THEN Import(GlueOrigin, i.field)
    ELSE IF i.module # "env" THEN i
    ELSE IF i.field = "memory" THEN Import(GlueOrigin, i.field)
    ELSE IF i.field \in MathFields THEN Import(GlueOrigin, renamed_import(i.field))
    ELSE i

\* fn _rewrite_imports(&mut self, module_name): the module it leaves.  The
\* functions of the module refer to an import by its index, so a renamed
\* import is still the one they reach.
rewrite_imports_module(M) ==
    [M EXCEPT
       !.imports = [k \in 1 .. Len(@) |-> rewrite_import(@[k])],
       !.uses = { <<u[1], IF \E k \in 1 .. Len(M.imports) :
                               /\ M.imports[k] = Import("env", u[2])
                               /\ u[2] \in MathFields
                            THEN renamed_import(u[2]) ELSE u[2]>> : u \in @ }]

\* the math shims _rewrite_imports returns, in the order of the imports
RECURSIVE math_imports(_, _)
math_imports(M, k) ==
    IF k > Len(M.imports) THEN <<>>
    ELSE LET i == M.imports[k]
         IN  (IF i.module = "env" /\ i.field \in MathFields
              THEN <<renamed_import(i.field)>> ELSE <<>>) \o math_imports(M, k + 1)

\* fn rewrite_imports(&mut self, module_name): exports the math shims
RECURSIVE export_all(_, _, _)
export_all(C, names, k) ==
    IF k > Len(names) THEN C
    ELSE export_all(export(C, names[k], "function(x) { return Math.{}(x); }"),
                    names, k + 1)

rewrite_imports(C, M) == export_all(C, math_imports(M, 1), 1)

-----------------------------------------------------------------------------
(* State of the reference table and the calls the module and the export     *)
(* glue make on it.                                                         *)

Cur == Table(slab, slab_named, slab_next, stack)

\* the handle addresses a slab cell that holds a free-list link
IsFreeCell(h) ==
    Shr1(h) >= NumInitial /\ IsNumber(SlabGet(Cur, Num(Shr1(h))))

\* the table becomes the one the call leaves
Apply(r) ==
    /\ slab'       = r.st.slab
    /\ slab_named' = r.st.slab_named
    /\ slab_next'  = r.st.slab_next
    /\ stack'      = r.st.stack
    /\ UNCHANGED <<config, genvars>>

\* addHeapObject appends a cell only while the slab is below the bound
MayGrow == (IsNumber(slab_next) /\ slab_next.n = Len(slab)) => Len(slab) < MaxSlab

\* a cell whose count cloneRef may still raise within the bound
BelowMaxCnt(h) ==
    LET val == SlabGet(Cur, Num(Shr1(h)))
    IN  (IsCell(val) /\ IsNumber(val.cnt)) => val.cnt.n < MaxCnt

\* cloneRef is driven on every handle but those of the seeded cells 1..3,
\* which differ from cell 0 by their value only
CloneHandles == { h \in Handles : IsOdd(h) \/ Shr1(h) = 0 \/ Shr1(h) >= NumInitial }

\* the handles of the dynamic cells
DynamicHandles == { h \in Handles : ~IsOdd(h) /\ Shr1(h) >= NumInitial }

AddHeapObject ==
    \E v \in Values :
        /\ MayGrow
        /\ Apply(addHeapObject(Cur, v))
        /\ UNCHANGED <<dropped_free, ledger>>

\* dropRef and takeObject are called on every handle, those of cells that
\* are already free included; dropped_free records that such a call was made.
DropRef ==
    \E h \in Handles :
        /\ Apply(dropRef(Cur, h))
        /\ dropped_free' = (dropped_free \/ IsFreeCell(h))
        /\ UNCHANGED ledger

GetObject ==
    \E h \in Handles :
        /\ Apply(getObject(Cur, h))
        /\ UNCHANGED <<dropped_free, ledger>>

TakeObject ==
    \E h \in Handles :
        /\ Apply(takeObject(Cur, h))
        /\ dropped_free' = (dropped_free \/ IsFreeCell(h))
        /\ UNCHANGED ledger

CloneRef ==
    \E h \in CloneHandles :
        /\ IF IsOdd(h) THEN MayGrow ELSE BelowMaxCnt(h)
        /\ Apply(wbindgen_object_clone_ref(Cur, h))
        /\ UNCHANGED <<dropped_free, ledger>>

AddBorrowedObject ==
    \E v \in Values :
        /\ Len(stack) < MaxStack
        /\ Apply(addBorrowedObject(Cur, v))
        /\ UNCHANGED <<dropped_free, ledger>>

ReleaseBorrowed ==
    /\ Len(stack) > 0
    /\ Apply(releaseBorrowed(Cur))
    /\ UNCHANGED <<dropped_free, ledger>>

AssertStackEmpty ==
    /\ config.debug
    /\ Apply(assertStackEmpty(Cur))
    /\ UNCHANGED <<dropped_free, ledger>>

AssertSlabEmpty ==
    /\ config.debug
    /\ Apply(assertSlabEmpty(Cur))
    /\ UNCHANGED <<dropped_free, ledger>>

InitTable ==
    /\ slab       = InitialSlab
    /\ slab_named = NoNamed
    /\ slab_next  = Num(Len(InitialSlab))    \* let slab_next = slab.length;
    /\ stack      = <<>>                     \* const stack = [];
    /\ dropped_free = FALSE
    /\ ledger = [held |-> [h \in DynamicHandles |-> 0], peak |-> 0]

InitContext ==
    /\ exposed_globals = {}
    /\ required_internal_exports = {}
    /\ globals = <<>>
    /\ imports = <<>>
    /\ gen = [repeated |-> FALSE, result |-> "Ok"]
    /\ pc = "generate"
    /\ imported_names = {}
    /\ imported_identifiers = {}
    /\ exported_classes = {}
    /\ typescript = <<>>
    /\ classes_left = {}
    /\ error = ""
    /\ imported_statics = {}
    /\ original = [v \in Values |-> [a |-> 1, b |-> 2]]
    /\ memory_buffer = 0
    /\ cache = [name \in Accessors |-> Null]
    /\ shim_run = [phase |-> "none"]
    /\ runtime = InitRuntime

\* The reference table reads config.debug and the strictness of the output
\* only: the browser and ES-module nodejs outputs behave as the default
\* output, the CommonJS nodejs output as the no_modules output.
TableConfigs == { c \in Configs : ~c.browser /\ ~c.nodejs /\ ~c.weak_refs }

Init ==
    /\ config \in TableConfigs
    /\ InitTable
    /\ InitContext
    /\ function_table_needed = FALSE
    /\ module = Module(<<>>, <<>>, {}, FALSE)
    /\ memory_init = FALSE

Next ==
    \/ AddHeapObject
    \/ DropRef
    \/ GetObject
    \/ TakeObject
    \/ CloneRef
    \/ AddBorrowedObject
    \/ ReleaseBorrowed
    \/ AssertStackEmpty
    \/ AssertSlabEmpty

Spec == Init /\ [][Next]_vars

\* Every sequence of addHeapObject and dropRef calls, on any handle.
NextAddDrop ==
    \/ AddHeapObject
    \/ DropRef

SpecAddDrop == Init /\ [][NextAddDrop]_vars

\* the number of dynamic cells of the slab s that hold a value
LiveCount(s) == Cardinality({ i \in (NumInitial + 1) .. Len(s) : ~IsNumber(s[i]) })

\* the handle of a dynamic cell that holds a value
IsLiveHandle(h) == h \in DynamicHandles /\ IsCell(SlabGet(Cur, Num(Shr1(h))))

\* The history after the call that returned r: the call handed out (d = 1)
\* or took back (d = -1) one reference to the handle h, unless it threw.
Account(r, h, d) ==
    ledger' =
        [held |-> IF r.err = "" /\ h \in DynamicHandles
                  THEN [ledger.held EXCEPT ![h] = IF @ + d < 0 THEN 0 ELSE @ + d]
                  ELSE ledger.held,
         peak |-> IF LiveCount(r.st.slab) > ledger.peak
                  THEN LiveCount(r.st.slab) ELSE ledger.peak]

\* The module uses the table as the generated bindings do: it drops, takes
\* and clones the handles it was given and that are still live, and the
\* history of the references and of the live cells is kept.
Allocate ==
    \E v \in Values :
        LET r == addHeapObject(Cur, v)
        IN  /\ MayGrow
            /\ Apply(r)
            /\ Account(r, r.val, 1)
            /\ UNCHANGED dropped_free

Release ==
    \E h \in Handles :
        LET r == dropRef(Cur, h)
        IN  /\ IsLiveHandle(h)
            /\ Apply(r)
            /\ Account(r, h, -1)
            /\ UNCHANGED dropped_free

Take ==
    \E h \in Handles :
        LET r == takeObject(Cur, h)
        IN  /\ IsLiveHandle(h)
            /\ Apply(r)
            /\ Account(r, h, -1)
            /\ UNCHANGED dropped_free

Clone ==
    \E h \in Handles :
        LET r == wbindgen_object_clone_ref(Cur, h)
        IN  /\ IsLiveHandle(h) \/ (IsOdd(h) /\ Shr1(h) < Len(stack))
            /\ IF IsOdd(h) THEN MayGrow ELSE BelowMaxCnt(h)
            /\ Apply(r)
            /\ Account(r, r.val, 1)
            /\ UNCHANGED dropped_free

NextLedger ==
    \/ Allocate
    \/ Release
    \/ Take
    \/ Clone
    \/ GetObject
    \/ AddBorrowedObject
    \/ ReleaseBorrowed
    \/ AssertStackEmpty
    \/ AssertSlabEmpty

SpecLedger == Init /\ [][NextLedger]_vars

\* The helpers the binding generators request, by the key each one guards
\* itself with.
Exposers ==
    { "stack", "slab", "slab_next", "drop_ref", "get_object", "borrowed_objects",
      "take_object", "add_heap_object", "getUint8Memory", "getUint32Memory",
      "getArrayU8FromWasm", "getArrayU32FromWasm", "get_array_js_value_from_wasm",
      "text_encoder", "text_decoder", "get_string_from_wasm", "pass_string_to_wasm",
      "passArray8ToWasm", "pass_array_jsvalue", "global_argument_ptr",
      "get_global_argument", "u32CvtShim", "int64CvtShim", "uint64CvtShim" }

\* the call of the helper that guards itself with key e
expose(C, e) ==
    CASE e = "stack"               -> ROk(expose_global_stack(C))
      [] e = "slab"                -> ROk(expose_global_slab(C))
      [] e = "slab_next"           -> ROk(expose_global_slab_next(C))
      [] e = "drop_ref"            -> ROk(expose_drop_ref(C))
      [] e = "get_object"          -> ROk(expose_get_object(C))
      [] e = "borrowed_objects"    -> ROk(expose_borrowed_objects(C))
      [] e = "take_object"         -> ROk(expose_take_object(C))
      [] e = "add_heap_object"     -> ROk(expose_add_heap_object(C))
      [] e = "getUint8Memory"      -> ROk(expose_uint8_memory(C))
      [] e = "getUint32Memory"     -> ROk(expose_uint32_memory(C))
      [] e = "getArrayU8FromWasm"  -> ROk(expose_get_array_u8_from_wasm(C))
      [] e = "getArrayU32FromWasm" -> ROk(expose_get_array_u32_from_wasm(C))
      [] e = "get_array_js_value_from_wasm" -> ROk(expose_get_array_js_value_from_wasm(C))
      [] e = "text_encoder"        -> ROk(expose_text_encoder(C))
      [] e = "text_decoder"        -> ROk(expose_text_decoder(C))
      [] e = "get_string_from_wasm" -> ROk(expose_get_string_from_wasm(C))
      [] e = "pass_string_to_wasm" -> expose_pass_string_to_wasm(C)
      [] e = "passArray8ToWasm"    -> expose_pass_array8_to_wasm(C)
      [] e = "pass_array_jsvalue"  -> expose_pass_array_jsvalue_to_wasm(C)
      [] e = "global_argument_ptr" -> expose_global_argument_ptr(C)
      [] e = "get_global_argument" -> expose_get_global_argument(C)
      [] e = "u32CvtShim"          -> ROk(expose_u32_cvt_shim(C))
      [] e = "int64CvtShim"        -> ROk(expose_int64_cvt_shim(C))
      [] e = "uint64CvtShim"       -> ROk(expose_uint64_cvt_shim(C))

\* A binding generator requests a helper, any number of times; an Err
\* propagates with `?` and ends the generation.
Expose ==
    \E e \in Exposers :
        LET r == expose(Context, e)
        IN  /\ gen.result = "Ok"
            /\ Len(globals) < MaxGlobals
            /\ exposed_globals' = r.ctx.exposed_globals
            /\ required_internal_exports' = r.ctx.required_internal_exports
            /\ globals' = r.ctx.globals
            /\ imports' = r.ctx.imports
            /\ memory_init' = r.ctx.memory_init
            /\ gen' = [repeated |-> e \in exposed_globals,
                       result   |-> IF r.err = "" THEN "Ok" ELSE "Err"]
            /\ UNCHANGED <<config, module, rtvars, restvars>>

\* the modules the generator is given: with or without the internal exports,
\* with a memory of their own or with an imported, shared one
Modules ==
    { Module(x, IF m THEN <<>> ELSE <<EnvMemory>>, {}, ~m) :
        x \in {<<>>, <<"__wbindgen_malloc">>,
                <<"__wbindgen_malloc", "__wbindgen_global_argument_ptr">>},
        m \in BOOLEAN }

InitGen ==
    /\ config \in { c \in Configs : ~c.weak_refs }
    /\ InitTable
    /\ InitContext
    /\ function_table_needed = FALSE
    /\ module \in Modules
    /\ memory_init = FALSE

NextGen == Expose

SpecGen == InitGen /\ [][NextGen]_vars

-----------------------------------------------------------------------------
(* A run of the generator up to the end of finalize.  pc names the step of  *)
(* finalize that comes next; "done" and "failed" are its Ok and Err.        *)

\* the context becomes C
SetContext(C) ==
    /\ exposed_globals' = C.exposed_globals
    /\ required_internal_exports' = C.required_internal_exports
    /\ globals' = C.globals
    /\ imports' = C.imports
    /\ memory_init' = C.memory_init

\* a step of finalize that returns r: `?` leaves finalize on an error
Step(r, next) ==
    /\ SetContext(r.ctx)
    /\ pc' = IF r.err = "" THEN next ELSE "failed"
    /\ gen' = [repeated |-> FALSE, result |-> IF r.err = "" THEN "Ok" ELSE "Err"]

\* the helpers a binding generator requests in the runs that go on to finalize
FinalizeExposers ==
    { "getUint8Memory", "pass_string_to_wasm", "global_argument_ptr", "take_object",
      "get_string_from_wasm" }

\* The binding generators request one helper, or none.
ExposeOnce ==
    \E e \in FinalizeExposers :
        LET r == expose(Context, e)
        IN  /\ pc = "generate"
            /\ exposed_globals = {}
            /\ SetContext(r.ctx)
            /\ gen' = [repeated |-> FALSE, result |-> IF r.err = "" THEN "Ok" ELSE "Err"]
            /\ UNCHANGED <<config, module, rtvars, restvars>>

\* finalize starts: self.write_classes()?, here with no exported class
WriteClasses ==
    /\ pc \in {"generate", "imports"}
    /\ gen.result = "Ok"
    /\ exported_classes = {}
    /\ pc' = "bind_shims"
    /\ UNCHANGED <<config, module, rtvars, exposed_globals, required_internal_exports,
                   globals, imports, memory_init, gen, function_table_needed,
                   imported_names, imported_identifiers, exported_classes, extvars>>

FinalizeFrame ==
    UNCHANGED <<config, rtvars, function_table_needed, imported_names,
                imported_identifiers, exported_classes, extvars>>

\* self.bind("__wbindgen_object_clone_ref", ..)?; .. self.bind("__wbindgen_rethrow", ..)?;
BindShims ==
    /\ pc = "bind_shims"
    /\ Step(bind_from(Context, 1), "create_memory_export")
    /\ UNCHANGED module
    /\ FinalizeFrame

CreateMemoryExport ==
    /\ pc = "create_memory_export"
    /\ Step(ROk(create_memory_export(Context)), "unexport")
    /\ UNCHANGED module
    /\ FinalizeFrame

UnexportUnused ==
    /\ pc = "unexport"
    /\ module' = unexport_unused_internal_exports(module, required_internal_exports)
    /\ Step(ROk(Context), "closures_rewrite")
    /\ FinalizeFrame

\* closures::rewrite(self)?, an external pass: the modules explored hold no
\* closure for it to rewrite
ClosuresRewrite ==
    /\ pc = "closures_rewrite"
    /\ Step(ROk(Context), "gc")
    /\ UNCHANGED module
    /\ FinalizeFrame

Gc ==
    /\ pc = "gc"
    /\ module' = gc(module)
    /\ Step(ROk(Context), "bind_throw")
    /\ FinalizeFrame

BindThrow ==
    /\ pc = "bind_throw"
    /\ Step(bind(Context, "__wbindgen_throw"), "rewrite_imports")
    /\ UNCHANGED module
    /\ FinalizeFrame

RewriteImports ==
    /\ pc = "rewrite_imports"
    /\ module' = rewrite_imports_module(module)
    /\ Step(ROk(rewrite_imports(Context, module)), "export_table")
    /\ FinalizeFrame

ExportTable ==
    /\ pc = "export_table"
    /\ module' = export_table(module, function_table_needed)
    /\ Step(ROk(Context), "gc_final")
    /\ FinalizeFrame

GcFinal ==
    /\ pc = "gc_final"
    /\ module' = gc(module)
    /\ Step(ROk(Context), "done")
    /\ FinalizeFrame

\* imports of the modules explored beside the shims: a user import bound
\* through the placeholder, a math intrinsic, another import of env, and an
\* import of a module of its own
OtherImports ==
    << Import(Placeholder, "__wbg_alert"), Import("env", "Math_tan"),
       Import("env", "other"), Import("./snippets", "helper") >>

\* the shims a module imports: none, any one, or one together with throw
ShimImports ==
    {<<>>, <<"__wbindgen_throw">>}
    \cup { <<Shims[i]>> : i \in 1 .. Len(Shims) }
    \cup { <<x, "__wbindgen_throw">> :
             x \in {"__wbindgen_string_new", "__wbindgen_cb_drop", "__wbindgen_string_get"} }

ExportTables ==
    { <<"greet">>,
      <<"__wbindgen_malloc", "greet", "__wbindgen_free">>,
      <<"greet", "__wbindgen_global_argument_ptr", "__wbg_other", "__wbindgen_malloc">> }

\* the function behind greet reaches every import but throw, and throw too
\* when it can panic; the allocator reaches throw
Uses(fields, panics) ==
    { <<"greet", f>> : f \in fields \ (IF panics THEN {} ELSE {"__wbindgen_throw"}) }
    \cup {<<"__wbindgen_malloc", "__wbindgen_throw">>}

FinalizeModules ==
    { Module(x,
             [k \in 1 .. Len(sh) |-> Import(Placeholder, sh[k])]
                 \o OtherImports \o (IF mem THEN <<EnvMemory>> ELSE <<>>),
             Uses({ sh[k] : k \in 1 .. Len(sh) }
                      \cup { OtherImports[k].field : k \in 1 .. Len(OtherImports) },
                  panics),
             FALSE) :
        x \in ExportTables, sh \in ShimImports, mem \in BOOLEAN, panics \in BOOLEAN }
    \cup
    \* modules without an export section
    { WithoutExportSection(
          Module(<<>>,
                 [k \in 1 .. Len(sh) |-> Import(Placeholder, sh[k])]
                     \o OtherImports \o (IF mem THEN <<EnvMemory>> ELSE <<>>),
                 Uses({ sh[k] : k \in 1 .. Len(sh) }
                          \cup { OtherImports[k].field : k \in 1 .. Len(OtherImports) },
                      FALSE),
                 FALSE)) :
        sh \in ShimImports, mem \in BOOLEAN }

\* the outputs: ES module in a debug build, CommonJS and no_modules in release
FinalizeConfigs ==
    { c \in Configs :
        /\ ~c.browser /\ ~c.nodejs_experimental_modules /\ ~c.weak_refs
        /\ c.debug <=> ~(c.nodejs \/ c.no_modules) }

InitFinalize ==
    /\ config \in FinalizeConfigs
    /\ InitTable
    /\ InitContext
    /\ function_table_needed \in BOOLEAN
    /\ module \in FinalizeModules
    /\ memory_init = FALSE

NextFinalize ==
    \/ ExposeOnce
    \/ WriteClasses
    \/ BindShims
    \/ CreateMemoryExport
    \/ UnexportUnused
    \/ ClosuresRewrite
    \/ Gc
    \/ BindThrow
    \/ RewriteImports
    \/ ExportTable
    \/ GcFinal

SpecFinalize == InitFinalize /\ [][NextFinalize]_vars

-----------------------------------------------------------------------------
(* Names of imports: SubContext::import_name and generate_identifier.       *)

\* import.module and import.js_namespace are Option<String>: None is the
\* empty text, which no module and no namespace of the inputs is
NoModule == ""
NoNamespace == ""

\* imported_identifiers: HashMap<String, usize>, as the set of its entries
Count(used_names, name) ==
    IF \E u \in used_names : u.name = name
    THEN (CHOOSE u \in used_names : u.name = name).cnt
    ELSE 0

\* fn generate_identifier(name, used_names) -> String, with the map it leaves
generate_identifier(name, used_names) ==
    LET cnt == Count(used_names, name) + 1
    IN  [ident |-> IF cnt = 1 THEN name ELSE name \o ToString(cnt),
         used  |-> { u \in used_names : u.name # name }
                       \cup {[name |-> name, cnt |-> cnt]}]

\* the fields of the Context that import_name reads and writes
ImportContext == [imports |-> imports,
                  imported_names |-> imported_names,
                  imported_identifiers |-> imported_identifiers]

\* let name_to_import = import.js_namespace.unwrap_or(item)
name_to_import(import, item) ==
    IF import.js_namespace # NoNamespace THEN import.js_namespace ELSE item

\* the entries of imported_names for the module and the identifier
Known(C, origin, name) ==
    { e \in C.imported_names : e.module = origin /\ e.name = name }

\* the line pushed to imports for a new identifier of a module
import_declaration(ident, origin, name) ==
    IF use_node_require
    THEN Item("const {} = require(String.raw({})).{};", <<ident, origin, name>>)
    ELSE IF name = ident
    THEN Item("import { {} } from '{}';", <<ident, origin>>)
    ELSE Item("import { {} as {} } from '{}';", <<name, ident, origin>>)

\* what import_name returns for the local identifier
import_access(identifier, import, item) ==
    IF import.js_namespace # NoNamespace
    THEN identifier \o "." \o item
    ELSE identifier

\* import_name that never reuses a recorded identifier
import_name_AlwaysNew(C, import, item) ==
    IF config.no_modules /\ import.module # NoModule
    THEN [ctx |-> C, err |-> "import from module not allowed with --no-modules", ret |-> ""]
    ELSE LET name == name_to_import(import, item)
             g    == generate_identifier(name, C.imported_identifiers)
         IN  [ctx |-> [imports |->
                           IF import.module # NoModule
                           THEN Append(C.imports,
                                       import_declaration(g.ident, import.module, name))
                           ELSE C.imports,
                       imported_names |->
                           C.imported_names
                               \cup {[module |-> import.module, name |-> name,
                                      alias |-> g.ident]},
                       imported_identifiers |-> g.used],
              err |-> "",
              ret |-> import_access(g.ident, import, item)]

\* import_name that tests for no_modules after it has recorded the import
import_name_ChecksLate(C, import, item) ==
    LET r == LET name  == name_to_import(import, item)
                      known == Known(C, import.module, name)
                      g     == generate_identifier(name, C.imported_identifiers)
                  IN  IF known # {}
                      THEN [ctx |-> C, err |-> "",
                            ret |-> import_access((CHOOSE e \in known : TRUE).alias, import, item)]
                      ELSE [ctx |-> [imports |->
                                         IF import.module # NoModule
                                         THEN Append(C.imports,
                                                     import_declaration(g.ident, import.module, name))
                                         ELSE C.imports,
                                     imported_names |->
                                         C.imported_names
                                             \cup {[module |-> import.module, name |-> name,
                                                    alias |-> g.ident]},
                                     imported_identifiers |-> g.used],
                            err |-> "",
                            ret |-> import_access(g.ident, import, item)]
    IN  IF config.no_modules /\ import.module # NoModule
        THEN [ctx |-> r.ctx, err |-> "import from module not allowed with --no-modules",
              ret |-> ""]
        ELSE r

\* fn import_name(&mut self, import, item) -> Result<String, Error>
import_name(C, import, item) ==
    IF config.no_modules /\ import.module # NoModule
    THEN [ctx |-> C, err |-> "import from module not allowed with --no-modules", ret |-> ""]
    ELSE LET name  == name_to_import(import, item)
             known == Known(C, import.module, name)
             g     == generate_identifier(name, C.imported_identifiers)
         IN  IF known # {}
             THEN [ctx |-> C, err |-> "",
                   ret |-> import_access((CHOOSE e \in known : TRUE).alias, import, item)]
             ELSE [ctx |-> [imports |->
                                IF import.module # NoModule
                                THEN Append(C.imports,
                                            import_declaration(g.ident, import.module, name))
                                ELSE C.imports,
                            imported_names |->
                                C.imported_names
                                    \cup {[module |-> import.module, name |-> name,
                                           alias |-> g.ident]},
                            imported_identifiers |-> g.used],
                   err |-> "",
                   ret |-> import_access(g.ident, import, item)]

\* the imports the bindings name: from the global scope or from one of two
\* modules, directly or through a namespace
ImportInputs ==
    [module : {NoModule, "./a", "./b"}, js_namespace : {NoNamespace, "foo"}]

ImportItems == {"foo", "foo2"}

\* generate_import_*: a binding asks for the name of its import; an Err
\* propagates with `?` and ends the generation
ImportName ==
    \E import \in ImportInputs, item \in ImportItems :
        LET r == import_name(ImportContext, import, item)
        IN  /\ gen.result = "Ok"
            /\ imports' = r.ctx.imports
            /\ imported_names' = r.ctx.imported_names
            /\ imported_identifiers' = r.ctx.imported_identifiers
            /\ gen' = [repeated |-> Known(ImportContext, import.module,
                                          name_to_import(import, item)) # {},
                       result   |-> IF r.err = "" THEN "Ok" ELSE "Err"]
            /\ UNCHANGED <<config, module, rtvars, exposed_globals,
                           required_internal_exports, globals, memory_init, pc,
                           function_table_needed, exported_classes, extvars>>

\* the outputs: ES module, CommonJS (require), no_modules
ImportConfigs ==
    { c \in Configs :
        ~c.debug /\ ~c.browser /\ ~c.nodejs_experimental_modules /\ ~c.weak_refs }

InitImports ==
    /\ config \in ImportConfigs
    /\ InitTable
    /\ InitContext
    /\ function_table_needed = FALSE
    /\ module = Module(<<>>, <<>>, {}, FALSE)
    /\ memory_init = FALSE

NextImports == ImportName

SpecImports == InitImports /\ [][NextImports]_vars

-----------------------------------------------------------------------------
(* Exports of classes: SubContext::generate_export_for_class.               *)

\* the members generated for one class in the runs explored
MaxMembers == 2

\* ExportedClass::default(), kept under the name of the class
DefaultClass(name) ==
    [name |-> name, comments |-> "", contents |-> <<>>, typescript |-> <<>>,
     has_constructor |-> FALSE, wrap_needed |-> FALSE, fields |-> <<>>]

\* self.cx.exported_classes.entry(class_name).or_insert(ExportedClass::default())
ClassEntry(classes, name) ==
    IF \E c \in classes : c.name = name
    THEN CHOOSE c \in classes : c.name = name
    ELSE DefaultClass(name)

\* the map with the entry of the class replaced
WithClass(classes, class) ==
    { c \in classes : c.name # class.name } \cup {class}

\* shared::struct_function_export_name(class_name, function name)
struct_function_export_name(class_name, name) == class_name \o "_" \o name

\* the texts Js2Rust::finish returns for the export
finish_js(wasm_name) == "(..) { return wasm." \o wasm_name \o "(..); }"
finish_ts(function_name) == function_name \o "(..): any;"

\* generate_export_for_class without the test of has_constructor
generate_export_for_class_NoDuplicateTest(classes, class_name, exp, described, processed) ==
    LET wasm_name == struct_function_export_name(class_name, exp.name)
        function_name == IF exp.is_constructor THEN "constructor" ELSE exp.name
        class == ClassEntry(classes, class_name)
        documented == [class EXCEPT !.contents = Append(@, "/** doc */")]
        marked ==
            IF exp.is_constructor
            THEN [documented EXCEPT !.has_constructor = TRUE]
            ELSE IF ~exp.method
            THEN [documented EXCEPT !.contents = Append(@, "static "),
                                    !.typescript = Append(@, "static ")]
            ELSE documented
        pushed ==
            [marked EXCEPT
               !.contents = @ \o <<function_name, finish_js(wasm_name), "\n">>,
               !.typescript = @ \o <<finish_ts(function_name), "\n">>]
    IN  IF ~described THEN [classes |-> classes, err |-> ""]
        ELSE IF ~processed
        THEN [classes |-> classes, err |-> "Js2Rust::process failed"]
        ELSE [classes |-> WithClass(classes, pushed), err |-> ""]

\* fn generate_export_for_class(&mut self, class_name, export) -> Result<(), Error>
\* described: describe(&wasm_name) is Some; processed: Js2Rust::process is Ok
generate_export_for_class(classes, class_name, exp, described, processed) ==
    LET wasm_name == struct_function_export_name(class_name, exp.name)
        function_name == IF exp.is_constructor THEN "constructor" ELSE exp.name
        class == ClassEntry(classes, class_name)
        documented == [class EXCEPT !.contents = Append(@, "/** doc */")]
        marked ==
            IF exp.is_constructor
            THEN [documented EXCEPT !.has_constructor = TRUE]
            ELSE IF ~exp.method
            THEN [documented EXCEPT !.contents = Append(@, "static "),
                                    !.typescript = Append(@, "static ")]
            ELSE documented
        pushed ==
            [marked EXCEPT
               !.contents = @ \o <<function_name, finish_js(wasm_name), "\n">>,
               !.typescript = @ \o <<finish_ts(function_name), "\n">>]
    IN  IF ~described THEN [classes |-> classes, err |-> ""]
        ELSE IF ~processed
        THEN [classes |-> classes, err |-> "Js2Rust::process failed"]
        ELSE IF exp.is_constructor /\ class.has_constructor
        THEN [classes |-> WithClass(classes, documented),
              err |-> "found duplicate constructor"]
        ELSE [classes |-> WithClass(classes, pushed), err |-> ""]

\* the members written to the contents of a class: each ends with a newline
NumMembers(class) ==
    Cardinality({ k \in 1 .. Len(class.contents) : class.contents[k] = "\n" })

ClassNames == {"Foo", "Bar"}

\* shared::Export of a class: constructors of two names, a method, a static
\* function
ClassExports ==
    { [name |-> "new", is_constructor |-> TRUE, method |-> FALSE],
      [name |-> "with_value", is_constructor |-> TRUE, method |-> FALSE],
      [name |-> "get", is_constructor |-> FALSE, method |-> TRUE],
      [name |-> "create", is_constructor |-> FALSE, method |-> FALSE] }

\* generate_export for an export with a class; an Err propagates with `?`
\* and ends the generation
GenerateExportForClass ==
    \E class_name \in ClassNames, exp \in ClassExports,
       described \in BOOLEAN, processed \in BOOLEAN :
        LET r == generate_export_for_class(exported_classes, class_name, exp,
                                           described, processed)
        IN  /\ gen.result = "Ok"
            /\ NumMembers(ClassEntry(exported_classes, class_name)) < MaxMembers
            /\ exported_classes' = r.classes
            /\ gen' = [repeated |-> /\ exp.is_constructor
                                    /\ ClassEntry(exported_classes, class_name).has_constructor,
                       result   |-> IF r.err = "" THEN "Ok" ELSE "Err"]
            /\ UNCHANGED <<config, module, rtvars, exposed_globals,
                           required_internal_exports, globals, imports, memory_init,
                           pc, function_table_needed, imported_names,
                           imported_identifiers, extvars>>

InitClasses ==
    /\ config \in { c \in Configs :
                     ~c.debug /\ ~c.browser /\ ~c.nodejs /\ ~c.no_modules /\ ~c.weak_refs }
    /\ InitTable
    /\ InitContext
    /\ function_table_needed = FALSE
    /\ module = Module(<<>>, <<>>, {}, FALSE)
    /\ memory_init = FALSE

NextClasses == GenerateExportForClass

SpecClasses == InitClasses /\ [][NextClasses]_vars

-----------------------------------------------------------------------------
(* The classes of a program: the struct loop of SubContext::generate,       *)
(* require_class_wrap, write_classes and write_class.                       *)

\* the pieces pushed to a String, joined
RECURSIVE Concat(_)
Concat(pieces) ==
    IF pieces = <<>> THEN "" ELSE Head(pieces) \o Concat(Tail(pieces))

\* format_doc_comments(comments, None) for the one comment line " doc":
\* format!("/**\n{}{}*/\n", body, doc) with the body "* doc\n"
format_doc_comments == "/**\n* doc\n*/\n"

\* fn require_class_wrap(&mut self, class: &str)
require_class_wrap(classes, class_name) ==
    WithClass(classes, [ClassEntry(classes, class_name) EXCEPT !.wrap_needed = TRUE])

\* generate: the body of `for s in self.program.structs.iter()`
generate_struct(classes, struct) ==
    WithClass(classes,
              [ClassEntry(classes, struct.name) EXCEPT
                 !.comments = format_doc_comments,
                 !.fields = @ \o struct.fields])

\* fn expose_cleanup_groups(&mut self)
expose_cleanup_groups(C) ==
    IF "cleanup_groups" \in C.exposed_globals THEN C
    ELSE global(insert(C, "cleanup_groups"),
                Item("const CLEANUPS = new WeakRefGroup(x => x.holdings()); const CLEANUPS_MAP = new Map(); function addCleanup(obj, ptr, free) { }",
                     <<>>))

\* names of the shared crate
new_function(name) == "__wbg_" \o name \o "_new"
free_function(name) == "__wbg_" \o name \o "_free"
struct_field_get(name, field) == "__wbg_get_" \o name \o "_" \o field
struct_field_set(name, field) == "__wbg_set_" \o name \o "_" \o field

\* self.describe(&wasm_getter) for a field of the programs explored: "None"
\* when the module has no descriptor for it, the name of a class when the
\* field holds an instance of an exported class, a number otherwise
describe_field(field) ==
    CASE field = "gone" -> "None"
      [] field = "peer" -> "Bar"
      [] OTHER -> "U32"

\* the texts Js2Rust::finish returns for the setter and the getter of a field
field_set(name, field) ==
    "(arg0) { return wasm." \o struct_field_set(name, field) \o "(this.ptr, arg0); }"
field_get(name, field, ty) ==
    IF ty = "U32"
    THEN "() { return wasm." \o struct_field_get(name, field) \o "(this.ptr); }"
    ELSE "() { return " \o ty \o ".__wrap(wasm." \o struct_field_get(name, field)
             \o "(this.ptr)); }"

\* the body of the loop over class.fields that writes the setter of every
\* field
write_field_AlwaysSetter(st, name, field, rejected) ==
    LET ty  == describe_field(field.name)
        dst == IF ends_with(st.dst, "\n") THEN st.dst ELSE st.dst \o "\n"
    IN  IF ty = "None" THEN st
        ELSE IF field.name = rejected
        THEN [st EXCEPT !.err = "Js2Rust: unsupported type"]
        ELSE [dst |-> dst \o format_doc_comments
                          \o "get " \o field.name \o field_get(name, field.name, ty) \o "\n"
                          \o "set " \o field.name \o field_set(name, field.name),
              ts  |-> st.ts \o (IF field.readonly THEN "readonly " ELSE "")
                            \o field.name \o ": number\n",
              classes |-> IF ty = "U32" THEN st.classes
                          ELSE require_class_wrap(st.classes, ty),
              err |-> ""]

\* fn write_class: the body of `for field in class.fields.iter()`.  st holds
\* dst, ts_dst and self.exported_classes.  Js2Rust rejects the type of the
\* field `rejected`; its ret() for an instance of a class calls
\* require_class_wrap.
write_field(st, name, field, rejected) ==
    LET ty  == describe_field(field.name)
        dst == IF ends_with(st.dst, "\n") THEN st.dst ELSE st.dst \o "\n"
    IN  IF ty = "None" THEN st
        ELSE IF field.name = rejected
        THEN [st EXCEPT !.err = "Js2Rust: unsupported type"]
        ELSE [dst |-> dst \o format_doc_comments
                          \o "get " \o field.name \o field_get(name, field.name, ty) \o "\n"
                          \o (IF field.readonly THEN ""
                              ELSE "set " \o field.name \o field_set(name, field.name)),
              ts  |-> st.ts \o (IF field.readonly THEN "readonly " ELSE "")
                            \o field.name \o ": number\n",
              classes |-> IF ty = "U32" THEN st.classes
                          ELSE require_class_wrap(st.classes, ty),
              err |-> ""]

\* the loop over class.fields from the field at index k: `?` ends it at the
\* first error
RECURSIVE write_fields(_, _, _, _, _)
write_fields(st, name, fields, k, rejected) ==
    IF k > Len(fields) \/ st.err # "" THEN st
    ELSE write_fields(write_field(st, name, fields[k], rejected),
                      name, fields, k + 1, rejected)

\* fn write_class(&mut self, name, class) -> Result<(), Error>
\* registry is self.exported_classes, ts is self.typescript
write_class(C, registry, ts, name, class, rejected) ==
    LET c1 == IF config.weak_refs THEN expose_cleanup_groups(C) ELSE C
        mkweakref == IF config.weak_refs
                     THEN "addCleanup(this, this.ptr, free" \o name \o ");"
                     ELSE ""
        freeref == IF config.weak_refs
                   THEN "CLEANUPS_MAP.get(ptr).drop(); CLEANUPS_MAP.delete(ptr); "
                   ELSE ""
        dst1 == "class " \o name \o " {\n"
        dst2 == IF config.debug /\ ~class.has_constructor
                THEN dst1 \o "constructor() { throw new Error('cannot invoke new directly'); }\n"
                ELSE dst1
        imported == wasm_import_needed(new_function(name))
        c2 == IF imported
              THEN export(expose_add_heap_object(c1), new_function(name),
                          "function(ptr) { return addHeapObject(" \o name \o ".__wrap(ptr)); }")
              ELSE c1
        wrap_needed == class.wrap_needed \/ imported
        dst3 == IF wrap_needed
                THEN dst2 \o "static __wrap(ptr) { const obj = Object.create(" \o name
                          \o ".prototype); obj.ptr = ptr; "
                          \o (IF config.weak_refs
                              THEN "addCleanup(obj, obj.ptr, free" \o name \o ");"
                              ELSE "")
                          \o " return obj; }\n"
                ELSE dst2
        f == write_fields([dst |-> dst3, ts |-> "export class " \o name \o " {\n",
                           classes |-> registry, err |-> ""],
                          name, class.fields, 1, rejected)
        c3 == global(c2, Item("function free{}(ptr) { {} wasm.{}(ptr); }",
                              <<name, freeref, free_function(name)>>))
        dst4 == f.dst \o "free() { const ptr = this.ptr; this.ptr = 0; free" \o name
                      \o "(ptr); }\n"
                      \o Concat(class.contents) \o "}\n"
        ts4 == f.ts \o "free(): void;\n" \o Concat(class.typescript) \o "}\n"
    IN  IF f.err # ""
        THEN [ctx |-> c2, classes |-> f.classes, typescript |-> ts, err |-> f.err]
        ELSE [ctx |-> export_commented(c3, name, dst4, class.comments),
              classes |-> f.classes,
              typescript |-> Append(ts, ts4),
              err |-> ""]

\* the structs of the program: a read-only and a read-write field; a field
\* whose getter was eliminated from the module; a field holding an instance
\* of the class Bar
FieldLists ==
    { <<>>,
      <<[name |-> "x", readonly |-> TRUE], [name |-> "y", readonly |-> FALSE]>>,
      <<[name |-> "gone", readonly |-> FALSE], [name |-> "x", readonly |-> FALSE]>>,
      <<[name |-> "peer", readonly |-> TRUE]>> }

\* the exports of the program that belong to a class
ProgramExports ==
    { [name |-> "new", is_constructor |-> TRUE, method |-> FALSE],
      [name |-> "get", is_constructor |-> FALSE, method |-> TRUE] }

\* the contents of the class hold the member generated for the export
Generated(class, exp) ==
    \E k \in 1 .. Len(class.contents) :
        class.contents[k] = finish_js(struct_function_export_name(class.name, exp.name))

\* failure's with_context: the Display of the error under the context
with_context(err, context) ==
    IF err = "" THEN "" ELSE context \o ": " \o err

\* the export_context without the name of the export
export_context_Unnamed(name) ==
    "failed to generate bindings for a Rust export"

\* the context generate gives to the error of an export
export_context(name) ==
    "failed to generate bindings for Rust export " \o name

\* the fields no step of the program writes
ProgramFrame ==
    UNCHANGED <<config, module, rtvars, required_internal_exports, imports,
                memory_init, function_table_needed, imported_names,
                imported_identifiers>>

\* generate: an iteration of `for f in self.program.exports.iter()` for an
\* export of a class; each export of the program is visited once
GenerateExport ==
    \E class_name \in ClassNames, exp \in ProgramExports, described \in BOOLEAN :
        LET r == generate_export_for_class(exported_classes, class_name, exp,
                                           described, TRUE)
        IN  /\ pc = "generate"
            /\ gen.result = "Ok"
            /\ ~Generated(ClassEntry(exported_classes, class_name), exp)
            /\ exported_classes' = r.classes
            /\ gen' = [repeated |-> FALSE,
                       result   |-> IF r.err = "" THEN "Ok" ELSE "Err"]
            /\ error' = with_context(r.err, export_context(exp.name))
            /\ UNCHANGED <<pc, exposed_globals, globals, typescript, classes_left,
                           othervars>>
            /\ ProgramFrame

\* a binding generated for an export or an import returns an instance of the
\* class: Js2Rust / Rust2Js call require_class_wrap
RequireClassWrap ==
    \E class_name \in ClassNames :
        /\ pc = "generate"
        /\ gen.result = "Ok"
        /\ exported_classes' = require_class_wrap(exported_classes, class_name)
        /\ UNCHANGED <<pc, gen, exposed_globals, globals, extvars>>
        /\ ProgramFrame

\* generate: an iteration of `for s in self.program.structs.iter()`, after
\* the loops over exports, imports and enums; each struct is visited once
GenerateStruct ==
    \E class_name \in ClassNames, fields \in FieldLists :
        /\ pc \in {"generate", "imports", "structs"}
        /\ gen.result = "Ok"
        /\ ClassEntry(exported_classes, class_name).comments = ""
        /\ exported_classes' =
               generate_struct(exported_classes, [name |-> class_name, fields |-> fields])
        /\ pc' = "structs"
        /\ UNCHANGED <<gen, exposed_globals, globals, extvars>>
        /\ ProgramFrame

\* the loop over the structs is over: the class of a field that holds an
\* instance of a class is a struct of the program and has been visited
StructsVisited ==
    \A class \in exported_classes :
        \A k \in 1 .. Len(class.fields) :
            describe_field(class.fields[k].name) \notin {"None", "U32"} =>
                ClassEntry(exported_classes,
                           describe_field(class.fields[k].name)).comments # ""

\* write_classes: mem::replace(&mut self.exported_classes, Default::default())
WriteClassesBegin ==
    /\ pc \in {"generate", "imports", "structs"}
    /\ gen.result = "Ok"
    /\ exported_classes # {}
    /\ StructsVisited
    /\ classes_left' = exported_classes
    /\ exported_classes' = {}
    /\ pc' = "write_classes"
    /\ UNCHANGED <<gen, exposed_globals, globals, typescript, error, othervars>>
    /\ ProgramFrame

\* write_classes: an iteration of `for (class, exports) in classes`, in the
\* order of the HashMap, which is any order; `?` ends the loop at an error
WriteClass ==
    \E class \in classes_left, rejected \in {"", "y"} :
        LET r == write_class(Context, exported_classes, typescript, class.name, class,
                             rejected)
        IN  /\ pc = "write_classes"
            /\ exposed_globals' = r.ctx.exposed_globals
            /\ globals' = r.ctx.globals
            /\ exported_classes' = r.classes
            /\ typescript' = r.typescript
            /\ classes_left' = classes_left \ {class}
            /\ gen' = [repeated |-> FALSE,
                       result   |-> IF r.err = "" THEN "Ok" ELSE "Err"]
            /\ error' = r.err
            /\ UNCHANGED othervars
            /\ pc' = IF r.err # "" THEN "failed"
                     ELSE IF classes_left = {class} THEN "bind_shims"
                     ELSE "write_classes"
            /\ ProgramFrame

\* the program is compiled for the default output: in debug, in release, or
\* in release with weak references
ProgramConfigs ==
    { c \in Configs :
        ~c.browser /\ ~c.nodejs /\ ~c.no_modules /\ (c.weak_refs => ~c.debug) }

\* its module imports nothing, or the shim that wraps a new instance of Bar
ProgramModules ==
    { Module(<<>>, <<>>, {}, FALSE),
      Module(<<>>, <<Import(Placeholder, new_function("Bar"))>>, {}, FALSE) }

InitProgram ==
    /\ config \in ProgramConfigs
    /\ InitTable
    /\ InitContext
    /\ function_table_needed = FALSE
    /\ module \in ProgramModules
    /\ module.imports # <<>> => (~config.debug /\ ~config.weak_refs)
    /\ memory_init = FALSE

NextProgram ==
    \/ GenerateExport
    \/ RequireClassWrap
    \/ GenerateStruct
    \/ WriteClassesBegin
    \/ WriteClass

SpecProgram == InitProgram /\ [][NextProgram]_vars

-----------------------------------------------------------------------------
(* The bindings of a program: the loops of SubContext::generate over the    *)
(* exports and the imports, and the Result they return.                     *)

\* the context generate_import gives to the error of an import
import_context(name) ==
    "failed to generate bindings for JS import " \o name

\* generate_export that starts the declaration of a free function before it
\* asks for the descriptor
generate_export_DeclaresFirst(C, classes, ts, class_name, exp, described, processed) ==
    LET forclass == generate_export_for_class(classes, class_name, exp,
                                              described, processed)
    IN  IF class_name # ""
        THEN [ctx |-> C, classes |-> forclass.classes, typescript |-> ts,
              err |-> forclass.err]
        ELSE [ctx |-> C, classes |-> classes,
              typescript |-> Append(ts, "export "),
              err |-> IF described /\ processed THEN "" ELSE "Js2Rust::process failed"]

\* fn generate_export(&mut self, export) -> Result<(), Error>.  class_name
\* is export.class, "" for None.  described: describe() is Some; processed:
\* Js2Rust::process accepts the types of the function; for a function that
\* takes a string it calls expose_pass_string_to_wasm.
generate_export(C, classes, ts, class_name, exp, described, processed) ==
    LET forclass == generate_export_for_class(classes, class_name, exp,
                                              described, processed)
        p  == IF exp.takes_string THEN expose_pass_string_to_wasm(C) ELSE ROk(C)
        js == "function" \o finish_js(exp.name)
        c1 == export_commented(p.ctx, exp.name, js, format_doc_comments)
        c2 == [c1 EXCEPT !.globals = Append(@, Item("\n", <<>>))]
    IN  IF class_name # ""
        THEN [ctx |-> C, classes |-> forclass.classes, typescript |-> ts,
              err |-> forclass.err]
        ELSE IF ~described
        THEN [ctx |-> C, classes |-> classes, typescript |-> ts, err |-> ""]
        ELSE IF ~processed
        THEN [ctx |-> C, classes |-> classes, typescript |-> ts,
              err |-> "Js2Rust::process failed"]
        ELSE IF p.err # ""
        THEN [ctx |-> p.ctx, classes |-> classes, typescript |-> ts, err |-> p.err]
        ELSE [ctx |-> c2, classes |-> classes,
              typescript |-> ts \o <<"export ", finish_ts(exp.name), "\n">>,
              err |-> ""]

\* fn generate_import_static(&mut self, info, import) -> Result<(), Error>
\* I is the part of the context that import_name works on
generate_import_static(C, I, statics, info, import) ==
    LET n == import_name(I, info, import.name)
    IN  IF import.shim \in statics
        THEN [ctx |-> C, names |-> I, statics |-> statics, err |-> ""]
        ELSE IF n.err # ""
        THEN [ctx |-> C, names |-> n.ctx, statics |-> statics \cup {import.shim},
              err |-> n.err]
        ELSE [ctx |-> export(expose_add_heap_object(C), import.shim,
                             "function() { return addHeapObject(" \o n.ret \o "); }"),
              names |-> n.ctx,
              statics |-> statics \cup {import.shim},
              err |-> ""]

\* the exports of the program: two free functions, one of which takes a
\* string, two constructors and a method of the class Foo
BindingExports ==
    { [class |-> "", name |-> "greet", is_constructor |-> FALSE, method |-> FALSE,
       takes_string |-> TRUE],
      [class |-> "", name |-> "add", is_constructor |-> FALSE, method |-> FALSE,
       takes_string |-> FALSE],
      [class |-> "Foo", name |-> "new", is_constructor |-> TRUE, method |-> FALSE,
       takes_string |-> FALSE],
      [class |-> "Foo", name |-> "with_value", is_constructor |-> TRUE,
       method |-> FALSE, takes_string |-> FALSE],
      [class |-> "Foo", name |-> "get", is_constructor |-> FALSE, method |-> TRUE,
       takes_string |-> FALSE] }

\* its static imports: one of a module, one of the global scope
BindingImports ==
    { [shim |-> "__wbg_static_accessor_CONFIG", name |-> "CONFIG",
       info |-> [module |-> "./a", js_namespace |-> NoNamespace]],
      [shim |-> "__wbg_static_accessor_document", name |-> "document",
       info |-> [module |-> NoModule, js_namespace |-> NoNamespace]] }

\* the export has been bound: its function is in the glue, or its member in
\* the contents of its class
Bound(exp) ==
    IF exp.class = ""
    THEN \E j \in 1 .. Len(globals) :
             /\ Len(globals[j].args) = 2
             /\ globals[j].args[1] = exp.name
    ELSE Generated(ClassEntry(exported_classes, exp.class), exp)

\* generate: an iteration of `for f in self.program.exports.iter()`; the
\* error of generate_export gets the context that names the export and
\* leaves generate with `?`
GenerateExportBinding ==
    \E exp \in BindingExports, described \in BOOLEAN, processed \in BOOLEAN :
        LET r == generate_export(Context, exported_classes, typescript, exp.class,
                                 exp, described, processed)
        IN  /\ pc = "generate"
            /\ gen.result = "Ok"
            /\ ~Bound(exp)
            /\ SetContext(r.ctx)
            /\ exported_classes' = r.classes
            /\ typescript' = r.typescript
            /\ gen' = [repeated |-> FALSE,
                       result   |-> IF r.err = "" THEN "Ok" ELSE "Err"]
            /\ error' = with_context(r.err, export_context(exp.name))
            /\ UNCHANGED <<config, module, rtvars, pc, function_table_needed,
                           imported_names, imported_identifiers, classes_left,
                           othervars>>

\* generate: an iteration of `for f in self.program.imports.iter()` for a
\* static; generate_import gives the error the context that names the import
GenerateImport ==
    \E import \in BindingImports :
        LET r == generate_import_static(Context, ImportContext, imported_statics,
                                        import.info, import)
        IN  /\ pc \in {"generate", "imports"}
            /\ gen.result = "Ok"
            /\ exposed_globals' = r.ctx.exposed_globals
            /\ globals' = r.ctx.globals
            /\ imports' = r.names.imports
            /\ imported_names' = r.names.imported_names
            /\ imported_identifiers' = r.names.imported_identifiers
            /\ imported_statics' = r.statics
            /\ gen' = [repeated |-> import.shim \in imported_statics,
                       result   |-> IF r.err = "" THEN "Ok" ELSE "Err"]
            /\ error' = with_context(r.err, import_context(import.name))
            /\ pc' = "imports"
            /\ UNCHANGED <<config, module, rtvars, required_internal_exports,
                           memory_init, function_table_needed, exported_classes,
                           typescript, classes_left, original, memvars, shim_run,
                           runtime>>

\* the module has the allocator or lacks it, and imports the shim that
\* reads a string or no shim
BindingModules ==
    { Module(x, [k \in 1 .. Len(sh) |-> Import(Placeholder, sh[k])], {}, FALSE) :
        x \in {<<"greet">>, <<"__wbindgen_malloc", "greet", "__wbindgen_free">>},
        sh \in {<<>>, <<"__wbindgen_string_get">>} }

\* release builds for the default output and for no_modules
BindingConfigs ==
    { c \in Configs : ~c.debug /\ ~c.browser /\ ~c.nodejs /\ ~c.weak_refs }

InitBindings ==
    /\ config \in BindingConfigs
    /\ InitTable
    /\ InitContext
    /\ function_table_needed = FALSE
    /\ module \in BindingModules
    /\ memory_init = FALSE

\* generate, then finalize
NextBindings ==
    \/ GenerateExportBinding
    \/ GenerateImport
    \/ WriteClasses
    \/ WriteClassesBegin
    \/ WriteClass
    \/ BindShims
    \/ CreateMemoryExport
    \/ UnexportUnused
    \/ ClosuresRewrite
    \/ Gc
    \/ BindThrow
    \/ RewriteImports
    \/ ExportTable
    \/ GcFinal

SpecBindings == InitBindings /\ [][NextBindings]_vars

-----------------------------------------------------------------------------
(* Closures at run time: the shims __wbindgen_cb_drop and                   *)
(* __wbindgen_cb_forget that finalize binds.  The host values of the table  *)
(* are the closures; H maps each to the fields of its `original` object.    *)

\* v.original.a is an object the shim can write to: v is a closure
IsClosure(v) == v \in Values

\* the glue text G holds the declaration of getObject: a shim body that
\* calls getObject resolves the name only then
GetObjectDefined(G) ==
    \E k \in 1 .. Len(G) : G[k].text = "function getObject(idx) { {} }"

\* function(i) {
\*     let obj = getObject(i).original;
\*     obj.a = obj.b = 0;
\*     dropRef(i);
\* }
\* bind exposes dropRef for this body and nothing else: in a glue G that
\* holds no getObject the first statement throws a ReferenceError.
\* `.original` of undefined or null throws, and so does the write to the
\* `original` that a value other than a closure lacks
wbindgen_cb_drop(G, T, H, i) ==
    LET got     == getObject(T, i)
        zeroed  == [H EXCEPT ![got.val] = [a |-> 0, b |-> 0]]
        dropped == dropRef(T, i)
    IN  IF ~GetObjectDefined(G) THEN [st |-> T, heap |-> H, err |-> "ReferenceError"]
        ELSE IF got.err # "" THEN [st |-> T, heap |-> H, err |-> got.err]
        ELSE IF ~IsClosure(got.val) THEN [st |-> T, heap |-> H, err |-> "TypeError"]
        ELSE [st |-> dropped.st, heap |-> zeroed, err |-> dropped.err]

\* function(i) {
\*     dropRef(i);
\* }
wbindgen_cb_forget(T, H, i) ==
    LET dropped == dropRef(T, i)
    IN  [st |-> dropped.st, heap |-> H, err |-> dropped.err]

\* finalize emitted the export of the shim, so the module can call it
ShimEmitted(name) ==
    \E k \in 1 .. Len(globals) : globals[k].args = <<name, shim_contents(name)>>

\* the table and the closures become what the shim called with h leaves
ApplyShim(r, h) ==
    /\ slab'       = r.st.slab
    /\ slab_named' = r.st.slab_named
    /\ slab_next'  = r.st.slab_next
    /\ stack'      = r.st.stack
    /\ original'   = r.heap
    /\ dropped_free' = (dropped_free \/ IsFreeCell(h))
    /\ UNCHANGED <<genstate, ledger, memvars, shim_run, runtime>>

\* the module drops a closure: it calls the shim of the finished glue with a
\* handle
CbDrop ==
    \E h \in Handles :
        /\ pc = "done"
        /\ ShimEmitted("__wbindgen_cb_drop")
        /\ ApplyShim(wbindgen_cb_drop(globals, Cur, original, h), h)

\* the module forgets a closure
CbForget ==
    \E h \in Handles :
        /\ pc = "done"
        /\ ShimEmitted("__wbindgen_cb_forget")
        /\ ApplyShim(wbindgen_cb_forget(Cur, original, h), h)

\* modules that drop and forget closures: both shims are imported through
\* the placeholder and reached from the export greet, alone or beside the
\* shim __wbindgen_is_null, whose bind call exposes getObject
ClosureShims ==
    { <<"__wbindgen_cb_drop", "__wbindgen_cb_forget">>,
      <<"__wbindgen_is_null", "__wbindgen_cb_drop", "__wbindgen_cb_forget">> }

ClosureModules ==
    { Module(<<"greet">>,
             [k \in 1 .. Len(sh) |-> Import(Placeholder, sh[k])],
             Uses({ sh[k] : k \in 1 .. Len(sh) }, FALSE),
             FALSE) :
        sh \in ClosureShims }

InitClosures ==
    /\ config \in FinalizeConfigs
    /\ InitTable
    /\ InitContext
    /\ function_table_needed = FALSE
    /\ module \in ClosureModules
    /\ memory_init = FALSE

\* finalize generates the glue; then closures are handed to the module,
\* dropped and forgotten through the glue.
NextClosures ==
    \/ WriteClasses
    \/ BindShims
    \/ CreateMemoryExport
    \/ UnexportUnused
    \/ ClosuresRewrite
    \/ Gc
    \/ BindThrow
    \/ RewriteImports
    \/ ExportTable
    \/ GcFinal
    \/ (pc = "done" /\ AddHeapObject)
    \/ CbDrop
    \/ CbForget

SpecClosures == InitClosures /\ [][NextClosures]_vars

-----------------------------------------------------------------------------
(* Typed views of the memory at run time: the accessor that memview emits.  *)

\* the accessor that tests the cache for null only
accessor_NullOnly(cached, buffer, js) ==
    IF cached = Null
    THEN [cache |-> [t |-> "view", js |-> js, buffer |-> buffer],
          ret   |-> [t |-> "view", js |-> js, buffer |-> buffer],
          created |-> TRUE]
    ELSE [cache |-> cached, ret |-> cached, created |-> FALSE]

\* function {name}() {
\*     if (cache{name} === null || cache{name}.buffer !== {mem}.buffer) {
\*         cache{name} = new {js}({mem}.buffer);
\*     }
\*     return cache{name};
\* }
\* cached is cache{name}, buffer is {mem}.buffer; created: `new` was run
accessor(cached, buffer, js) ==
    IF cached = Null \/ cached.buffer # buffer
    THEN [cache |-> [t |-> "view", js |-> js, buffer |-> buffer],
          ret   |-> [t |-> "view", js |-> js, buffer |-> buffer],
          created |-> TRUE]
    ELSE [cache |-> cached, ret |-> cached, created |-> FALSE]

\* the constructor that expose_uint8_memory and expose_uint32_memory give
\* to memview
ViewOf(name) == IF name = "getUint8Memory" THEN "Uint8Array" ELSE "Uint32Array"

MemoryFrame == UNCHANGED <<genstate, rtvars, original, shim_run, runtime>>

\* the memory grows: `{mem}.buffer` is a new ArrayBuffer from then on
Grow ==
    /\ memory_buffer < MaxGrow
    /\ memory_buffer' = memory_buffer + 1
    /\ UNCHANGED cache
    /\ MemoryFrame

\* the glue calls an accessor
CallAccessor ==
    \E name \in Accessors :
        /\ cache' = [cache EXCEPT
                        ![name] = accessor(cache[name], memory_buffer, ViewOf(name)).cache]
        /\ UNCHANGED memory_buffer
        /\ MemoryFrame

NextMemory ==
    \/ Grow
    \/ CallAccessor

SpecMemory == Init /\ [][NextMemory]_vars

-----------------------------------------------------------------------------
(* Method imports: generated_import_target, and the glue it emits at load   *)
(* time and at the call of the shim.                                        *)

\* fn expose_get_inherited_descriptor(&mut self)
expose_get_inherited_descriptor(C) ==
    IF "get_inherited_descriptor" \in C.exposed_globals THEN C
    ELSE global(insert(C, "get_inherited_descriptor"),
                Item("function GetOwnOrInheritedPropertyDescriptor(obj, id) { while (obj) { let desc = Object.getOwnPropertyDescriptor(obj, id); if (desc) return desc; obj = Object.getPrototypeOf(obj); } throw new Error('descriptor for id not found'); }",
                     <<>>))

\* the text of the target of a method import: op is the Operation, with
\* kind "Regular", "Getter" or "Setter" and the name of the property
target_text(class, op, structural) ==
    LET location == IF op.is_static THEN "" ELSE ".prototype"
        binding  == IF op.is_static THEN ".bind(" \o class \o ")" ELSE ""
        this     == IF op.is_static THEN class ELSE "this"
    IN  IF structural
        THEN CASE op.kind = "Regular" ->
                      "function(x0) { return this." \o op.name \o "(x0); }"
               [] op.kind = "Getter" ->
                      "function() { return " \o this \o "." \o op.name \o "; }"
               [] op.kind = "Setter" ->
                      "function(y) { " \o this \o "." \o op.name \o " = y; }"
        ELSE CASE op.kind = "Regular" ->
                      class \o location \o "." \o op.name \o binding
               [] op.kind = "Getter" ->
                      "GetOwnOrInheritedPropertyDescriptor(" \o class \o location
                          \o ", '" \o op.name \o "').get" \o binding
               [] op.kind = "Setter" ->
                      "GetOwnOrInheritedPropertyDescriptor(" \o class \o location
                          \o ", '" \o op.name \o "').set" \o binding

\* the message of the Error that the fallback throws
does_not_exist(target) == "wasm-bindgen: " \o target \o " does not exist"

\* fn generated_import_target(&mut self, info, import, descriptor), for a
\* method import with an Operation: the class is named through import_name,
\* the target is bound to the constant {shim}_target, with the throwing
\* fallback unless the import is structural, and the callee is returned
generated_import_target(C, I, info, import) ==
    LET n  == import_name(I, info, import.class)
        op == import.op
        c1 == IF ~import.structural /\ op.kind \in {"Getter", "Setter"}
              THEN expose_get_inherited_descriptor(C)
              ELSE C
        target == target_text(n.ret, op, import.structural)
        fallback == IF import.structural THEN ""
                    ELSE " || function() { throw new Error('"
                             \o does_not_exist(target) \o "'); }"
    IN  IF n.err # ""
        THEN [ctx |-> C, names |-> n.ctx, err |-> n.err, ret |-> "", target |-> ""]
        ELSE [ctx |-> global(c1, Item("const {}_target = {}{};",
                                      <<import.shim, target, fallback>>)),
              names |-> n.ctx,
              err |-> "",
              ret |-> import.shim \o "_target" \o (IF op.is_static THEN "" ELSE ".call"),
              target |-> target]

\* what the host has at the property the import names, on the class for a
\* static and on the chain of its prototype for an instance: nothing, a
\* function, or an accessor with a getter, a setter or both
HostShapes == {"absent", "method", "accessor", "getter_only", "setter_only"}

\* The text the engine prints in its TypeError for the object that has the
\* getter a structural setter writes to: the source text of the class or of
\* the function for a static, `#<Class>` of the class whose prototype has
\* the getter (the class itself or one it extends) for an instance.  It is
\* not read in any other case.
Holders(import, host) ==
    IF import.structural /\ import.op.kind = "Setter" /\ host = "getter_only"
    THEN IF import.op.is_static
         THEN { "class " \o import.class \o " { static get " \o import.op.name
                    \o "() { return 'V'; } }",
                "function " \o import.class \o "() {}" }
         ELSE { "#<" \o import.class \o ">", "#<Base>" }
    ELSE {""}

\* the descriptor has the accessor that the import of that kind reads
HasAccessor(kind, host) ==
    IF kind = "Getter" THEN host \in {"accessor", "getter_only"}
    ELSE host \in {"accessor", "setter_only"}

\* the evaluation of `const {shim}_target = {target}{fallback};` when the
\* glue is loaded: the value of the constant, or the error thrown.
\* undefined.bind(..) is a TypeError; GetOwnOrInheritedPropertyDescriptor
\* throws when no object of the chain has the property.
load_target(import, host) ==
    LET op == import.op
        found == IF op.kind = "Regular" THEN host = "method"
                 ELSE HasAccessor(op.kind, host)
    IN  IF import.structural THEN [value |-> "function", fault |-> ""]
        ELSE IF op.kind # "Regular" /\ host = "absent"
        THEN [value |-> "none",
              fault |-> "Error: descriptor for id='" \o op.name \o "' not found"]
        ELSE IF op.is_static /\ ~found
        THEN [value |-> "none",
              fault |-> "TypeError: cannot read property 'bind' of undefined"]
        ELSE [value |-> IF found THEN "function" ELSE "fallback", fault |-> ""]

\* The call of the shim, which calls the callee generated_import_target
\* returned: `{shim}_target(x)` for a static, `{shim}_target.call(obj, x)`
\* for an instance.  The fallback throws.  A structural target runs its body:
\*   function(x0) { return this.bar(x0); }  also for a static, where `this`
\*       is undefined in strict code and the global object otherwise, and
\*       neither has the method;
\*   function() { return {location}.baz; }  reads the property: undefined
\*       when the host has none or an accessor without a getter;
\*   function(y) { {location}.baz = y; }    returns undefined; the write to
\*       an accessor without a setter throws in strict code and is ignored
\*       otherwise.
\* A nominal target is the host's function: the method or the getter returns
\* a value, the setter returns undefined.  holder is the text the engine
\* prints for the object that has the accessor.
call_target(import, host, holder, value, target) ==
    LET op == import.op
    IN  IF value = "fallback"
        THEN [ret |-> "none", fault |-> "Error: " \o does_not_exist(target)]
        ELSE IF ~import.structural
        THEN [ret |-> IF op.kind = "Setter" THEN "undefined" ELSE "value", fault |-> ""]
        ELSE IF op.kind = "Regular"
        THEN IF op.is_static /\ StrictMode
             THEN [ret |-> "none",
                   fault |-> "TypeError: Cannot read properties of undefined (reading '"
                                 \o op.name \o "')"]
             ELSE IF op.is_static \/ host # "method"
             THEN [ret |-> "none",
                   fault |-> "TypeError: this." \o op.name \o " is not a function"]
             ELSE [ret |-> "value", fault |-> ""]
        ELSE IF op.kind = "Getter"
        THEN [ret |-> IF host \in {"accessor", "getter_only", "method"}
                      THEN "value" ELSE "undefined",
              fault |-> ""]
        ELSE IF host = "getter_only" /\ StrictMode
        THEN [ret |-> "none",
              fault |-> "TypeError: Cannot set property " \o op.name \o " of "
                            \o holder \o " which has only a getter"]
        ELSE [ret |-> "undefined", fault |-> ""]

\* the method imports of the programs explored, all of the class Foo of the
\* global scope
MethodImports ==
    { [shim |-> "__wbg_f_1", class |-> "Foo", structural |-> st,
       op |-> [kind |-> k, is_static |-> is_static,
               name |-> IF k = "Regular" THEN "bar" ELSE "baz"]] :
        st \in BOOLEAN, k \in {"Regular", "Getter", "Setter"}, is_static \in BOOLEAN }

TargetFrame == UNCHANGED <<config, module, rtvars, required_internal_exports, memory_init,
                           pc, function_table_needed, exported_classes, typescript,
                           classes_left, error, imported_statics, original, memvars,
                           runtime>>

\* generate_import_function reaches generated_import_target for a method
\* import; the glue will run on a host of some shape
GenerateImportTarget ==
    \E import \in MethodImports, host \in HostShapes :
      \E holder \in Holders(import, host) :
        LET r == generated_import_target(Context, ImportContext,
                                         [module |-> NoModule, js_namespace |-> NoNamespace],
                                         import)
        IN  /\ shim_run.phase = "none"
            /\ gen.result = "Ok"
            /\ import.op.kind = "Regular" => host \in {"absent", "method"}
            /\ exposed_globals' = r.ctx.exposed_globals
            /\ globals' = r.ctx.globals
            /\ imports' = r.names.imports
            /\ imported_names' = r.names.imported_names
            /\ imported_identifiers' = r.names.imported_identifiers
            /\ gen' = [repeated |-> FALSE,
                       result   |-> IF r.err = "" THEN "Ok" ELSE "Err"]
            /\ shim_run' = [phase |-> "generated", import |-> import, host |-> host,
                            holder |-> holder,
                            target |-> r.target, value |-> "none", fault |-> ""]
            /\ TargetFrame

\* the glue is loaded: its top-level constants are evaluated
LoadGlue ==
    LET r == load_target(shim_run.import, shim_run.host)
    IN  /\ shim_run.phase = "generated"
        /\ shim_run' = [shim_run EXCEPT
                           !.phase = IF r.fault = "" THEN "loaded" ELSE "load_failed",
                           !.value = r.value,
                           !.fault = r.fault]
        /\ UNCHANGED <<genstate, rtvars, original, memvars, runtime>>

\* the module calls the shim
CallShim ==
    LET r == call_target(shim_run.import, shim_run.host, shim_run.holder,
                         shim_run.value, shim_run.target)
    IN  /\ shim_run.phase = "loaded"
        /\ shim_run' = [shim_run EXCEPT
                           !.phase = IF r.fault = "" THEN "returned" ELSE "call_failed",
                           !.value = r.ret,
                           !.fault = r.fault]
        /\ UNCHANGED <<genstate, rtvars, original, memvars, runtime>>

NextTargets ==
    \/ GenerateImportTarget
    \/ LoadGlue
    \/ CallShim

SpecTargets == Init /\ [][NextTargets]_vars

-----------------------------------------------------------------------------
(* Instances of an exported class at run time: the glue that write_class   *)
(* and expose_cleanup_groups emit.  R is the state of the instances.        *)

\* wasm.{free_function}(ptr): the destructor export runs; it is called
\* while a wrapper holds the pointer if a live wrapper has it in its field
wasm_free(R, ptr) ==
    [R EXCEPT !.calls[ptr] = @ + 1,
              !.dangling = @ \/ (ptr # 0 /\ \E obj \in Wrappers :
                                               /\ R.instances[obj].state = "live"
                                               /\ R.instances[obj].ptr = ptr)]

\* function addCleanup(obj, ptr, free) {
\*     const ref = CLEANUPS.makeRef(obj, () => free(ptr));
\*     CLEANUPS_MAP.set(ptr, ref);
\* }
addCleanup(R, obj, ptr) ==
    [R EXCEPT !.weakrefs[obj] = [state |-> "pending", holdings |-> ptr],
              !.map[ptr] = obj]

\* static __wrap(ptr) {
\*     const obj = Object.create({name}.prototype);
\*     obj.ptr = ptr;
\*     [weak_refs] addCleanup(obj, obj.ptr, free{name});
\*     return obj;
\* }
wrap(R, obj, ptr) ==
    LET made == [R EXCEPT !.instances[obj] = [state |-> "live", ptr |-> ptr, frees |-> 0],
                          !.fault = ""]
    IN  IF config.weak_refs THEN addCleanup(made, obj, ptr) ELSE made

\* free{name} that does not cancel the WeakRef
free_function_glue_NoCancel(R, ptr) ==
    wasm_free([R EXCEPT !.fault = ""], ptr)

\* function free{name}(ptr) {
\*     [weak_refs] CLEANUPS_MAP.get(ptr).drop();
\*     [weak_refs] CLEANUPS_MAP.delete(ptr);
\*     wasm.{free_function}(ptr);
\* }
\* `.drop()` of the undefined that get returns for a pointer without entry
\* throws a TypeError
free_function_glue(R, ptr) ==
    IF ~config.weak_refs THEN wasm_free([R EXCEPT !.fault = ""], ptr)
    ELSE IF R.map[ptr] = "undefined" THEN [R EXCEPT !.fault = "TypeError"]
    ELSE wasm_free([R EXCEPT !.weakrefs[R.map[ptr]].state = "dropped",
                             !.map[ptr] = "undefined",
                             !.fault = ""],
                   ptr)

\* free() {
\*     const ptr = this.ptr;
\*     this.ptr = 0;
\*     free{name}(ptr);
\* }
free(R, obj) ==
    free_function_glue([R EXCEPT !.instances[obj].ptr = 0,
                                 !.instances[obj].frees = @ + 1],
                       R.instances[obj].ptr)

\* the WeakRefGroup runs the holdings of a WeakRef whose object was
\* collected: the thunk () => free(ptr)
finalizer(R, obj) ==
    free_function_glue([R EXCEPT !.weakrefs[obj].state = "finalized"],
                       R.weakrefs[obj].holdings)

RuntimeFrame == UNCHANGED <<genstate, rtvars, original, memvars, shim_run>>

\* the wrapper is the value of a live cell of the slab
InSlab(obj) ==
    \E i \in (NumInitial + 1) .. Len(slab) : IsCell(slab[i]) /\ slab[i].obj = obj

\* The module calls its import {new_function(name)}:
\* function(ptr) { return addHeapObject({name}.__wrap(ptr)); }
\* the glue wraps the pointer and the slab holds the wrapper
Wrap ==
    \E obj \in Wrappers :
        LET r == addHeapObject(Cur, obj)
        IN  /\ runtime.instances[obj].state = "none"
            /\ MayGrow
            /\ runtime' = wrap(runtime, obj, PtrOf(obj))
            /\ slab'       = r.st.slab
            /\ slab_named' = r.st.slab_named
            /\ slab_next'  = r.st.slab_next
            /\ stack'      = r.st.stack
            /\ UNCHANGED <<genstate, dropped_free, ledger, original, memvars, shim_run>>

\* the host program calls free() on a wrapper it holds
Free ==
    \E obj \in Wrappers :
        /\ runtime.instances[obj].state = "live"
        /\ runtime.instances[obj].frees < MaxFrees
        /\ runtime' = free(runtime, obj)
        /\ RuntimeFrame

\* the module has dropped its handle, the host program lets go of the
\* wrapper, and the collector takes it
Collect ==
    \E obj \in Wrappers :
        /\ runtime.instances[obj].state = "live"
        /\ ~InSlab(obj)
        /\ runtime' = [runtime EXCEPT !.instances[obj].state = "collected", !.fault = ""]
        /\ RuntimeFrame

\* the WeakRefGroup finalizes a WeakRef that was not dropped
Finalizer ==
    \E obj \in Wrappers :
        /\ runtime.instances[obj].state = "collected"
        /\ runtime.weakrefs[obj].state = "pending"
        /\ runtime' = finalizer(runtime, obj)
        /\ RuntimeFrame

\* release builds for the default output, without and with weak references
InstanceConfigs ==
    { c \in Configs : ~c.debug /\ ~c.browser /\ ~c.nodejs /\ ~c.no_modules }

InitInstances ==
    /\ config \in InstanceConfigs
    /\ InitTable
    /\ InitContext
    /\ function_table_needed = FALSE
    /\ module = Module(<<>>, <<>>, {}, FALSE)
    /\ memory_init = FALSE

NextInstances ==
    \/ Wrap
    \/ DropRef
    \/ Free
    \/ Collect
    \/ Finalizer

SpecInstances == InitInstances /\ [][NextInstances]_vars

-----------------------------------------------------------------------------
(* Vocabulary of the claims.                                                *)

EvenHandles == { h \in Handles : ~IsOdd(h) }
OddHandles  == { h \in Handles : IsOdd(h) }

\* slab cell i holds a value with a reference count above zero
HasRefs(T, i) ==
    /\ i < Len(T.slab)
    /\ IsCell(T.slab[i + 1])
    /\ JsPositive(T.slab[i + 1].cnt)

\* handles of the live reference-counted cells (slab index >= 4)
LiveHandles(T) ==
    { h \in EvenHandles : Shr1(h) >= NumInitial /\ HasRefs(T, Shr1(h)) }

\* the free list is empty: slab_next === slab.length
FreeListEmpty(T) == IsNumber(T.slab_next) /\ T.slab_next.n = Len(T.slab)

\* some cell of the slab is free and heads the free list
FreeCellAvailable(T) ==
    /\ IsNumber(T.slab_next)
    /\ T.slab_next.n < Len(T.slab)
    /\ IsNumber(T.slab[T.slab_next.n + 1])

-----------------------------------------------------------------------------
(* C1 *)

\* addHeapObject never returns a handle whose cell still has a nonzero
\* reference count
NoLiveCellReissued ==
    \A v \in Values :
        LET r == addHeapObject(Cur, v)
        IN  r.err = "" => ~HasRefs(Cur, Shr1(r.val))

\* C1 as stated: for all sequences of addHeapObject and dropRef calls, no
\* two live handles share a slab index: addHeapObject never returns a handle
\* whose cell still has a nonzero refcount.
C1_Original == NoLiveCellReissued

\* C1, amended: for all sequences of addHeapObject and dropRef calls in which
\* dropRef is never applied to a handle whose cell is already free,
\* addHeapObject never returns a handle whose cell still has a nonzero refcount.
C1_NoLiveHandleReissued == ~dropped_free => NoLiveCellReissued

\* a freed cell heads the free list next to a live cell, no double drop made:
\* the next addHeapObject reuses a cell
C1_Witness ==
    /\ ~dropped_free
    /\ FreeCellAvailable(Cur)
    /\ LiveHandles(Cur) # {}

-----------------------------------------------------------------------------
(* C2 *)

\* C2: the value of a live handle h is kept by every call other than a
\* dropRef / takeObject of h that brings its count to zero: after any call on
\* any handle getObject(h) still returns the value stored by addHeapObject.
C2_ValueKeptUntilDropped ==
    \A h \in LiveHandles(Cur) :
        LET cell    == Cur.slab[Shr1(h) + 1]
            kept(r) == getObject(r.st, h) = Ok(r.st, cell.obj)
            last(g) == g = h /\ cell.cnt = Num(1)
        IN  /\ \A v \in Values :
                /\ kept(addHeapObject(Cur, v))
                /\ kept(addBorrowedObject(Cur, v))
            /\ \A g \in Handles :
                /\ last(g) \/ kept(dropRef(Cur, g))
                /\ last(g) \/ kept(takeObject(Cur, g))
                /\ kept(getObject(Cur, g))
                /\ kept(wbindgen_object_clone_ref(Cur, g))

-----------------------------------------------------------------------------
(* C3 *)

\* C3: dropRef of an odd (stack) handle changes neither the slab, nor a
\* reference count, nor slab_next, nor the stack, whatever the handle's
\* index; in a debug build it faults instead.
C3_OddDropIsNoOp ==
    \A h \in OddHandles :
        LET r == dropRef(Cur, h)
        IN  /\ r.st = Cur
            /\ config.debug => r.err # ""

-----------------------------------------------------------------------------
(* C4 *)

\* C4: dropRef of a live slab handle with count n leaves count n-1; while
\* n-1 > 0 the cell keeps its value and nothing else changes; at zero the
\* cell becomes the head of the free list, linked to the former head, and the
\* next addHeapObject returns that same handle.
C4_DropRefDecrementsAndRecycles ==
    \A h \in LiveHandles(Cur) :
        LET i    == Shr1(h)
            cell == Cur.slab[i + 1]
            r    == dropRef(Cur, h)
        IN  /\ r.err = ""
            /\ IF cell.cnt.n > 1
               THEN r.st = [Cur EXCEPT !.slab[i + 1] = Cell(cell.obj, Num(cell.cnt.n - 1))]
               ELSE /\ r.st = [Cur EXCEPT !.slab[i + 1] = Cur.slab_next,
                                          !.slab_next = Num(i)]
                    /\ \A v \in Values :
                          LET a == addHeapObject(r.st, v)
                          IN  a.err = "" /\ a.val = h

\* one cell was dropped to zero and heads the free list, linking to the end of
\* the slab, while another cell was decremented or cloned and holds two
\* references
C4_Witness ==
    /\ FreeCellAvailable(Cur)
    /\ slab[slab_next.n + 1].n = Len(slab)
    /\ \E h \in LiveHandles(Cur) : Cur.slab[Shr1(h) + 1].cnt.n > 1

-----------------------------------------------------------------------------
(* C5 *)

\* cloneRef of an odd handle: a cell that was not live is given the stack
\* value with count 1, its even handle is returned and dereferences to that
\* value, also once the stack entries are gone
PromotesStackHandle(h) ==
    LET r     == wbindgen_object_clone_ref(Cur, h)
        v     == getObject(Cur, h).val
        gone  == [r.st EXCEPT !.stack = <<>>]
    IN  /\ r.err = ""
        /\ ~IsOdd(r.val)
        /\ r.val \notin LiveHandles(Cur)
        /\ Shr1(r.val) >= NumInitial
        /\ SlabGet(r.st, Num(Shr1(r.val))) = Cell(v, Num(1))
        /\ r.st.stack = Cur.stack
        /\ getObject(r.st, r.val) = Ok(r.st, v)
        /\ getObject(releaseBorrowed(r.st).st, r.val).val = v
        /\ getObject(gone, r.val) = Ok(gone, v)

\* cloneRef of an even handle whose cell holds a value: the same handle is
\* returned and the cell's count is one more than before
IncrementsCount(h) ==
    LET i    == Shr1(h)
        cell == Cur.slab[i + 1]
        r    == wbindgen_object_clone_ref(Cur, h)
    IN  /\ r.err = ""
        /\ r.val = h
        /\ IsNumber(cell.cnt)
        /\ r.st = [Cur EXCEPT !.slab[i + 1] = Cell(cell.obj, Num(cell.cnt.n + 1))]

\* handles of the slab cells that hold a value: the seeded and the live ones
ValueHandles(T) ==
    { h \in EvenHandles : Shr1(h) < Len(T.slab) /\ IsCell(T.slab[Shr1(h) + 1]) }

\* C5 as stated: cloneRef on an even handle increments that cell's refcount
\* by exactly one and returns the same handle; on an odd handle it returns a
\* new even handle of a cell with refcount 1 that holds the stack value.
C5_Original ==
    /\ \A h \in ValueHandles(Cur) : IncrementsCount(h)
    /\ \A h \in OddHandles : PromotesStackHandle(h)

\* C5, amended: cloneRef on an even handle of a live reference-counted cell
\* (slab index >= 4) increments that cell's refcount by exactly one and
\* returns the same handle; on the handles 0, 2, 4, 6 of the seeded cells,
\* which carry no refcount, it returns the same handle and leaves every value
\* and every other cell unchanged; on an odd handle it allocates a cell with
\* refcount 1 and returns its even handle, whose getObject equals the stack
\* value and stays so after the stack entry is gone, as long as dropRef or
\* takeObject was never applied to a handle whose cell was already free.
C5_CloneRef ==
    /\ \A h \in LiveHandles(Cur) : IncrementsCount(h)
    /\ \A h \in ValueHandles(Cur) \ LiveHandles(Cur) :
          LET r == wbindgen_object_clone_ref(Cur, h)
          IN  /\ r.err = ""
              /\ r.val = h
              /\ \A g \in Handles : getObject(r.st, g).val = getObject(Cur, g).val
              /\ \A i \in 1 .. Len(slab) :
                    i # Shr1(h) + 1 => r.st.slab[i] = Cur.slab[i]
              /\ r.st.slab_next = Cur.slab_next
    /\ ~dropped_free => \A h \in OddHandles : PromotesStackHandle(h)

\* a live cell holds two references while a value is on the stack
C5_Witness ==
    /\ ~dropped_free
    /\ \E h \in LiveHandles(Cur) : Cur.slab[Shr1(h) + 1].cnt = Num(2)
    /\ Len(stack) > 0

-----------------------------------------------------------------------------
(* C6 *)

\* addHeapObject(v) stores v with refcount exactly 1 in a cell at index >= 4
\* and returns the even handle index << 1 of the cell; the slab grows by
\* exactly one slot when the free list is empty and not at all when a freed
\* cell is available
StoresWithCountOne ==
    \A v \in Values :
        LET r == addHeapObject(Cur, v)
            i == Shr1(r.val)
        IN  /\ r.err = ""
            /\ r.val = 2 * i
            /\ i >= NumInitial
            /\ i < Len(r.st.slab)
            /\ r.st.slab[i + 1] = Cell(v, Num(1))
            /\ getObject(r.st, r.val) = Ok(r.st, v)
            /\ \A j \in 1 .. Len(slab) : j # i + 1 => r.st.slab[j] = slab[j]
            /\ FreeListEmpty(Cur) => (i = Len(slab) /\ Len(r.st.slab) = Len(slab) + 1)
            /\ FreeCellAvailable(Cur) => (i = slab_next.n /\ Len(r.st.slab) = Len(slab))
            /\ FreeListEmpty(Cur) \/ FreeCellAvailable(Cur)

\* C6 as stated: in every state addHeapObject(v) stores v with refcount
\* exactly 1 and returns an even handle, growing the slab by exactly one slot
\* when the free list is empty and not at all when a freed cell is available.
C6_Original == StoresWithCountOne

\* C6, amended: as long as dropRef or takeObject was never applied to a
\* handle whose cell was already free, addHeapObject(v) stores v with refcount
\* exactly 1 and returns an even handle (index << 1), growing the slab by
\* exactly one slot when the free list is empty and not at all when a freed
\* cell is available.
C6_AddHeapObject == ~dropped_free => StoresWithCountOne

\* the slab grew by two cells, both live, and the free list is empty again
C6_Witness ==
    /\ ~dropped_free
    /\ Len(slab) = NumInitial + 2
    /\ FreeListEmpty(Cur)
    /\ \A i \in NumInitial .. (Len(slab) - 1) : HasRefs(Cur, i)

-----------------------------------------------------------------------------
(* C7 *)

\* C7: for every live slab handle h, takeObject(h) returns the value
\* getObject(h) returns in the same state and leaves the reference table in
\* the state dropRef(h) leaves it.
C7_TakeObjectIsGetThenDrop ==
    \A h \in LiveHandles(Cur) :
        LET t == takeObject(Cur, h)
        IN  /\ t.err = ""
            /\ t.val = getObject(Cur, h).val
            /\ t.val = Cur.slab[Shr1(h) + 1].obj
            /\ t.st = dropRef(Cur, h).st

\* live handles with one and with two references: takeObject frees the one
\* and decrements the other
C7_Witness ==
    /\ \E h \in LiveHandles(Cur) : Cur.slab[Shr1(h) + 1].cnt = Num(1)
    /\ \E h \in LiveHandles(Cur) : Cur.slab[Shr1(h) + 1].cnt = Num(2)

-----------------------------------------------------------------------------
(* C8 *)

\* the seeded cells dereference to undefined, null, true, false in table T
SeededIntact(T) ==
    \A i \in 0 .. (NumInitial - 1) :
        getObject(T, 2 * i) = Ok(T, INITIAL_SLAB_VALUES[i + 1])

\* the seeded cells stay intact and off the free list: in this state, after
\* every call, and in particular after dropRef and takeObject on their handles
SeededPermanent ==
    /\ SeededIntact(Cur)
    /\ IsNumber(slab_next) => slab_next.n >= NumInitial
    /\ \A v \in Values :
          /\ SeededIntact(addHeapObject(Cur, v).st)
          /\ SeededIntact(addBorrowedObject(Cur, v).st)
    /\ \A h \in Handles :
          /\ SeededIntact(dropRef(Cur, h).st)
          /\ SeededIntact(takeObject(Cur, h).st)
          /\ SeededIntact(wbindgen_object_clone_ref(Cur, h).st)
          /\ Shr1(h) < NumInitial =>
                /\ dropRef(Cur, h).st.slab_next = slab_next
                /\ takeObject(Cur, h).st.slab_next = slab_next
                /\ dropRef(Cur, h).st.slab = slab

\* addHeapObject never returns a handle with slab index below 4
NeverReturnsSeeded ==
    \A v \in Values :
        LET r == addHeapObject(Cur, v)
        IN  r.err = "" => Shr1(r.val) >= NumInitial

\* C8 as stated: after any sequence of reference-table operations the handles
\* 0, 2, 4, 6 dereference to undefined, null, true, false, dropRef on them
\* never puts their cell on the free list, and addHeapObject never returns a
\* handle with slab index below 4.
C8_Original == SeededPermanent /\ NeverReturnsSeeded

\* C8, amended: after any sequence of operations the handles 0, 2, 4, 6
\* dereference to undefined, null, true, false and dropRef on them never puts
\* their cell on the free list; addHeapObject never returns a handle with slab
\* index below 4 as long as dropRef was never applied to a handle whose cell
\* was already free.
C8_SeededCellsPermanent ==
    /\ SeededPermanent
    /\ ~dropped_free => NeverReturnsSeeded

\* after a double drop slab_next no longer holds a number, and the seeded
\* cells are still intact
C8_Witness ==
    /\ dropped_free
    /\ ~IsNumber(slab_next)
    /\ Len(slab) > NumInitial

-----------------------------------------------------------------------------
(* C9 *)

\* C9: addBorrowedObject(v) pushes v on the stack and returns the odd handle
\* (index << 1) | 1 whose getObject is v; releasing the borrow restores the
\* stack; in a debug build assertStackEmpty succeeds when every borrow was
\* released and faults when a borrowed entry is still on the stack.
C9_BorrowedObjects ==
    /\ \A v \in Values :
          LET r == addBorrowedObject(Cur, v)
          IN  /\ r.err = ""
              /\ r.st = [Cur EXCEPT !.stack = Append(stack, v)]
              /\ r.val = 2 * Len(stack) + 1
              /\ getObject(r.st, r.val) = Ok(r.st, v)
              /\ releaseBorrowed(r.st).st = Cur
              /\ config.debug => assertStackEmpty(r.st).err = "stack is not currently empty"
    /\ config.debug => (assertStackEmpty(Cur).err = "" <=> Len(stack) = 0)
    /\ assertStackEmpty(Cur).st = Cur

\* a debug build with a borrowed value still on the stack
C9_Witness ==
    /\ config.debug
    /\ Len(stack) > 0
    /\ getObject(Cur, 1).val \in Values

-----------------------------------------------------------------------------
(* C10 *)

\* no item occurs twice in the sequence
NoItemTwice(items) ==
    \A i, j \in 1 .. Len(items) : items[i] = items[j] => i = j

\* C10: over any sequence of expose_* calls, with repetition, each helper's
\* definition is appended to globals at most once: no item is in globals (or
\* imports) twice, before and after every call, and a call of a helper that
\* was called before, just now or at any earlier point of the sequence,
\* changes nothing and returns Ok.
C10_HelpersEmittedOnce ==
    /\ NoItemTwice(globals)
    /\ NoItemTwice(imports)
    /\ \A e \in Exposers :
          LET first  == expose(Context, e)
              second == expose(first.ctx, e)
          IN  /\ NoItemTwice(first.ctx.globals)
              /\ NoItemTwice(first.ctx.imports)
              /\ second = ROk(first.ctx)
              /\ e \in exposed_globals => first = ROk(Context)

\* a helper was requested again after slab_next had exposed itself and slab:
\* globals holds the two definitions, each once
C10_Witness ==
    /\ gen = [repeated |-> TRUE, result |-> "Ok"]
    /\ exposed_globals = {"slab", "slab_next"}
    /\ Len(globals) = 2

-----------------------------------------------------------------------------
(* C11 *)

\* the forms export() gives an item
ExportForms ==
    { "module.exports.{} = {};", "{1} module.exports.{0} = {0};",
      "__exports.{} = {};", "{1} __exports.{0} = {0};",
      "export function {}{}", "export {}", "export const {} = {};" }

\* the text of the item's definition: of what it exports, or its own
Body(item) == IF item.text \in ExportForms THEN item.args[2] ELSE item.text

\* the helper identifiers the item defines
Declares(item) ==
    IF item.text \in ExportForms THEN {item.args[1]}
    ELSE CASE item.text = "const stack = [];" -> {"stack"}
           [] item.text = "const slab = [{}];" -> {"slab"}
           [] item.text = "let slab_next = slab.length;" -> {"slab_next"}
           [] item.text = "function dropRef(idx) { {} {} {} }" -> {"dropRef"}
           [] item.text = "function getObject(idx) { {} }" -> {"getObject"}
           [] item.text = "function addBorrowedObject(obj) { }" -> {"addBorrowedObject"}
           [] item.text = "function takeObject(idx) { }" -> {"takeObject"}
           [] item.text = "function addHeapObject(obj) { {} }" -> {"addHeapObject"}
           [] item.text = "let cache{name} = null; function {name}() { new {js}({mem}.buffer) }"
                -> {item.args[1]}
           [] item.text = "function {name}(ptr, len) { {mem}().subarray(ptr / {size}, ..) }"
                -> {item.args[1]}
           [] item.text = "function getArrayJsValueFromWasm(ptr, len) { }"
                -> {"getArrayJsValueFromWasm"}
           [] item.text = "let cachedEncoder = new TextEncoder('utf-8');" -> {"cachedEncoder"}
           [] item.text = "let cachedDecoder = new TextDecoder('utf-8');" -> {"cachedDecoder"}
           [] item.text = "function getStringFromWasm(ptr, len) { getUint8Memory().{}(ptr, ptr + len) }"
                -> {"getStringFromWasm"}
           [] item.text = "function passStringToWasm(arg) { {} }" -> {"passStringToWasm"}
           [] item.text = "function {}(arg) { {}().set(arg, ptr / {size}) }" -> {item.args[1]}
           [] item.text = "function passArrayJsValueToWasm(array) { }"
                -> {"passArrayJsValueToWasm"}
           [] item.text = "function globalArgumentPtr() { }" -> {"globalArgumentPtr"}
           [] item.text = "function getGlobalArgument(arg) { }" -> {"getGlobalArgument"}
           [] OTHER -> {}

\* the helper identifiers the body of the item refers to, as the generated
\* JavaScript names them
Refers(item) ==
    LET body == Body(item)
    IN  CASE body = "function() { stack.length === 0 }" -> {"stack"}
          [] body = "function() { for (let i = {}; ...) }" -> {"slab"}
          [] body = "let slab_next = slab.length;" -> {"slab"}
          [] body = "function dropRef(idx) { {} {} {} }" -> {"slab", "slab_next"}
          [] body = "function getObject(idx) { {} }" -> {"stack", "slab"}
          [] body = "function addBorrowedObject(obj) { }" -> {"stack"}
          [] body = "function takeObject(idx) { }" -> {"getObject", "dropRef"}
          [] body = "function addHeapObject(obj) { {} }" -> {"slab", "slab_next"}
          [] body = "function {name}(ptr, len) { {mem}().subarray(ptr / {size}, ..) }"
               -> {item.args[2]}
          [] body = "function getArrayJsValueFromWasm(ptr, len) { }"
               -> {"getUint32Memory", "takeObject"}
          [] body = "function getStringFromWasm(ptr, len) { getUint8Memory().{}(ptr, ptr + len) }"
               -> {"cachedDecoder", "getUint8Memory"}
          [] body = "function passStringToWasm(arg) { {} }"
               -> {"cachedEncoder", "getUint8Memory"}
          [] body = "function {}(arg) { {}().set(arg, ptr / {size}) }" -> {item.args[2]}
          [] body = "function passArrayJsValueToWasm(array) { }"
               -> {"getUint32Memory", "addHeapObject"}
          [] body = "function getGlobalArgument(arg) { }"
               -> {"globalArgumentPtr", "getUint32Memory"}
          [] body = shim_contents("__wbindgen_object_clone_ref")
               -> {"addHeapObject", "getObject", "slab"}
          [] body = shim_contents("__wbindgen_object_drop_ref") -> {"dropRef"}
          [] body \in {shim_contents("__wbindgen_string_new"),
                       shim_contents("__wbindgen_symbol_new"),
                       shim_contents("__wbindgen_json_parse")}
               -> {"addHeapObject", "getStringFromWasm"}
          [] body \in {shim_contents("__wbindgen_number_new"),
                       shim_contents("__wbindgen_memory")} -> {"addHeapObject"}
          [] body = shim_contents("__wbindgen_number_get") -> {"getObject", "getUint8Memory"}
          [] body \in {shim_contents("__wbindgen_is_null"),
                       shim_contents("__wbindgen_is_undefined"),
                       shim_contents("__wbindgen_boolean_get"),
                       shim_contents("__wbindgen_is_symbol"),
                       shim_contents("__wbindgen_is_object"),
                       shim_contents("__wbindgen_is_function"),
                       shim_contents("__wbindgen_is_string"),
                       shim_contents("__wbindgen_jsval_eq")} -> {"getObject"}
          [] body \in {shim_contents("__wbindgen_string_get"),
                       shim_contents("__wbindgen_json_serialize")}
               -> {"getObject", "passStringToWasm", "getUint32Memory"}
          [] body = shim_contents("__wbindgen_cb_drop") -> {"getObject", "dropRef"}
          [] body = shim_contents("__wbindgen_rethrow") -> {"takeObject"}
          [] body = shim_contents("__wbindgen_throw") -> {"getStringFromWasm"}
          [] OTHER -> {}

\* every helper that an item of the sequence refers to is defined by an item
\* of the sequence
EmissionClosed(items) ==
    \A i \in 1 .. Len(items) :
        Refers(items[i]) \subseteq UNION { Declares(items[j]) : j \in 1 .. Len(items) }

\* C11: emission is closed under dependencies: after every helper request and
\* every step of finalize, each helper that the body of an emitted helper or
\* of an emitted shim refers to has been emitted as well.
C11_EmissionClosed == EmissionClosed(globals)

-----------------------------------------------------------------------------
(* C12 *)

\* the internal exports that helpers require
InternalNames == {"__wbindgen_malloc", "__wbindgen_global_argument_ptr"}

\* the helper emitters that require the export, by their exposed_globals key
Requiring(name) ==
    IF name = "__wbindgen_malloc"
    THEN {"pass_string_to_wasm", "passArray8ToWasm", "pass_array_jsvalue"}
    ELSE {"global_argument_ptr", "get_global_argument"}

\* the export section of the module has no entry of that name
Absent(name) == \A i \in 1 .. Len(module.exports) : module.exports[i] # name

\* every call for an absent export returns an error, in the given states
RequestFails(states) ==
    states =>
        \A name \in InternalNames :
            Absent(name) =>
                /\ require_internal_export(Context, name).err # ""
                /\ \A e \in Requiring(name) : expose(Context, e).err # ""

\* C12: require_internal_export and every helper emitter that depends on it
\* return an error on every call made while the export is absent from the
\* export section, earlier calls or not.
C12_EveryRequestFails == RequestFails(TRUE)

\* up to the first failed request the calls for an absent export return an
\* error, and a generation fails only over a required export that is absent
FirstRequestFails ==
    /\ RequestFails(gen.result = "Ok")
    /\ gen.result = "Err" => \E name \in required_internal_exports : Absent(name)

-----------------------------------------------------------------------------
(* C13 *)

\* the names of the entries of an export section
Fields(exports) == { exports[i] : i \in 1 .. Len(exports) }

\* the place of an entry in an export section without duplicates
Pos(exports, f) == CHOOSE i \in 1 .. Len(exports) : exports[i] = f

\* the entries of R are entries of S, each once and in the order of S
KeptInOrder(R, S) ==
    /\ Fields(R) \subseteq Fields(S)
    /\ \A a, b \in 1 .. Len(R) : a < b => Pos(S, R[a]) < Pos(S, R[b])

\* C13: unexport_unused_internal_exports removes exactly the entries whose
\* name starts with `__wbindgen` and was never marked required; every
\* required internal export and every export of another name is kept, in
\* the original order.  Stated of the call in every state of finalize, and
\* of the export section once the step of finalize has run.
C13_UnexportExactlyUnused ==
    LET S == module.exports
        R == unexport_unused_internal_exports(module, required_internal_exports).exports
    IN  /\ KeptInOrder(R, S)
        /\ \A f \in Fields(S) :
               f \in Fields(R) <=>
                   (~starts_with(f, "__wbindgen") \/ f \in required_internal_exports)
        /\ pc \in {"closures_rewrite", "gc", "bind_throw"} =>
               \A f \in Fields(S) :
                   ~starts_with(f, "__wbindgen") \/ f \in required_internal_exports

\* the step has dropped an unused internal export and kept a required one
\* after an export of another name
C13_Witness ==
    /\ pc = "closures_rewrite"
    /\ module.exports = <<"greet", "__wbg_other", "__wbindgen_malloc">>
    /\ "__wbindgen_malloc" \in required_internal_exports

-----------------------------------------------------------------------------
(* C14 *)

\* the items hold the export of the name
Exported(items, name) ==
    \E i \in 1 .. Len(items) :
        items[i].text \in ExportForms /\ items[i].args[1] = name

ThrowEmitted == Exported(globals, "__wbindgen_throw")

\* C14: in finalize the `__wbindgen_throw` shim is emitted only after the
\* first dead-code-elimination pass has run, and only if the placeholder
\* import `__wbindgen_throw` is still present in the module after that pass:
\* it is absent up to the end of the pass, the step that follows the pass is
\* entered from the pass alone, and that step emits the shim only with the
\* import in the module it finds.
C14_ThrowAfterGc ==
    /\ [](pc \in {"generate", "bind_shims", "create_memory_export", "unexport",
                  "closures_rewrite", "gc", "bind_throw"} => ~ThrowEmitted)
    /\ [][ /\ (ThrowEmitted' /\ ~ThrowEmitted) =>
                  /\ pc = "bind_throw"
                  /\ wasm_import_needed("__wbindgen_throw")
           /\ (pc' = "bind_throw" /\ pc # "bind_throw") =>
                  /\ pc = "gc"
                  /\ module' = gc(module) ]_vars

\* the shim has been emitted for a module that still imports it after the pass
C14_Witness ==
    /\ pc = "rewrite_imports"
    /\ ThrowEmitted
    /\ wasm_import_needed("__wbindgen_throw")

-----------------------------------------------------------------------------
(* C15 *)

\* the memory import names the glue module as its origin
MemoryRedirected ==
    \E k \in 1 .. Len(module.imports) :
        IsMemoryImport(module.imports[k]) /\ module.imports[k].module = GlueOrigin

\* C15: once finalize has rewritten the imports, a module that imports its
\* linear memory has that import redirected to the glue module and the glue
\* holds a `memory` export; the import is never redirected to the glue module
\* without that export, whichever helpers were used.
C15_MemoryExportWithRedirect ==
    pc \in {"export_table", "gc_final", "done"} =>
        /\ ~memory_section(module) => (MemoryRedirected /\ Exported(globals, "memory"))
        /\ MemoryRedirected => Exported(globals, "memory")

-----------------------------------------------------------------------------
(* C16 *)

\* no import entry of the module has the placeholder origin
NoPlaceholder(M) ==
    \A k \in 1 .. Len(M.imports) : M.imports[k].module # Placeholder

\* C16: after finalize no import has the placeholder origin
\* `__wbindgen_placeholder__`: the rewrite gives each such import the origin
\* `./<module_name>` and leaves its field name, and it leaves the imports
\* whose origin is neither the placeholder nor `env` as they are.  Stated of
\* the rewrite applied in every state of finalize, and of the module once
\* the step has run.
C16_PlaceholderRewritten ==
    LET R == rewrite_imports_module(module)
    IN  /\ Len(R.imports) = Len(module.imports)
        /\ NoPlaceholder(R)
        /\ \A k \in 1 .. Len(module.imports) :
               LET i == module.imports[k]
               IN  /\ i.module = Placeholder => R.imports[k] = Import(GlueOrigin, i.field)
                   /\ i.module \notin {Placeholder, "env"} => R.imports[k] = i
        /\ pc \in {"export_table", "gc_final", "done"} => NoPlaceholder(module)

\* finalize has ended with a placeholder import redirected and an import of
\* another origin in place
C16_Witness ==
    /\ pc = "done"
    /\ \E k \in 1 .. Len(module.imports) :
           module.imports[k] = Import(GlueOrigin, "__wbg_alert")
    /\ \E k \in 1 .. Len(module.imports) :
           module.imports[k] = Import("./snippets", "helper")

-----------------------------------------------------------------------------
(* C17 *)

\* the steps of finalize that touch the export section, in its order:
\* unexport_unused_internal_exports, export_table, gc
ExportTableSteps(M) ==
    gc(export_table(unexport_unused_internal_exports(M, required_internal_exports),
                    function_table_needed))

\* C17: once finalize has ended, running the steps that touch the export
\* table (dropping unused internal exports, function-table export, dead-code
\* pass) a second time leaves the export table as the first run left it.
C17_SecondRunKeepsExports ==
    pc = "done" => ExportTableSteps(module).exports = module.exports

-----------------------------------------------------------------------------
(* C18 *)

\* the (origin module, identifier) pair an import declaration is for
DeclaredPair(d) ==
    CASE d.text = "const {} = require(String.raw({})).{};" -> <<d.args[2], d.args[3]>>
      [] d.text = "import { {} } from '{}';" -> <<d.args[2], d.args[1]>>
      [] d.text = "import { {} as {} } from '{}';" -> <<d.args[3], d.args[1]>>
      [] OTHER -> <<NoModule, "">>

\* the import declarations written for the pair
Declarations(origin, name) ==
    { k \in 1 .. Len(imports) : DeclaredPair(imports[k]) = <<origin, name>> }

\* C18: for any sequence of import_name calls, the calls with the same
\* (origin module, identifier) pair return the same local alias and together
\* append exactly one import declaration; a call for a known pair appends
\* nothing.  As a state invariant with the effect of one more call: a pair
\* has one recorded alias and one declaration; a call for a known pair
\* changes nothing and returns the recorded alias; a call for a new pair
\* records the alias it returns and appends one declaration.
C18_OneAliasOneDeclaration ==
    /\ \A e1, e2 \in imported_names :
           (e1.module = e2.module /\ e1.name = e2.name) => e1 = e2
    /\ \A e \in imported_names :
           e.module # NoModule => Cardinality(Declarations(e.module, e.name)) = 1
    /\ \A k \in 1 .. Len(imports) :
           Known(ImportContext, DeclaredPair(imports[k])[1],
                 DeclaredPair(imports[k])[2]) # {}
    /\ \A import \in ImportInputs, item \in ImportItems :
           LET r     == import_name(ImportContext, import, item)
               name  == name_to_import(import, item)
               known == Known(ImportContext, import.module, name)
           IN  (r.err = "" /\ import.module # NoModule) =>
                   IF known # {}
                   THEN /\ r.ctx = ImportContext
                        /\ \E e \in known : r.ret = import_access(e.alias, import, item)
                   ELSE /\ Len(r.ctx.imports) = Len(imports) + 1
                        /\ SubSeq(r.ctx.imports, 1, Len(imports)) = imports
                        /\ DeclaredPair(r.ctx.imports[Len(imports) + 1])
                               = <<import.module, name>>
                        /\ \E e \in Known(r.ctx, import.module, name) :
                               r.ret = import_access(e.alias, import, item)

\* the same identifier has been asked of the same module again, after it was
\* imported from two modules
C18_Witness ==
    /\ gen = [repeated |-> TRUE, result |-> "Ok"]
    /\ Known(ImportContext, "./a", "foo") # {}
    /\ Known(ImportContext, "./b", "foo") # {}
    /\ Len(imports) = 2

-----------------------------------------------------------------------------
(* C19 *)

\* C19: local aliases are collision-free: two different (origin, identifier)
\* pairs never receive the same local alias, also when the name of one
\* identifier is the name of another followed by a number.
C19_AliasesCollisionFree ==
    \A e1, e2 \in imported_names :
        (e1.module # e2.module \/ e1.name # e2.name) => e1.alias # e2.alias

-----------------------------------------------------------------------------
(* C20 *)

\* the constructors written to the contents of a class
NumConstructors(class) ==
    Cardinality({ k \in 1 .. Len(class.contents) : class.contents[k] = "constructor" })

\* C20: a second constructor export for the same class is a fatal generation
\* error: once a constructor is recorded for a class, every further
\* constructor export of that class whose descriptor exists fails, and the
\* contents of a class never hold two constructors (one exactly when
\* has_constructor is set).
C20_DuplicateConstructorFails ==
    /\ \A class \in exported_classes :
           /\ NumConstructors(class) <= 1
           /\ class.has_constructor <=> NumConstructors(class) = 1
    /\ \A class \in exported_classes, exp \in ClassExports, processed \in BOOLEAN :
           (class.has_constructor /\ exp.is_constructor) =>
               LET r == generate_export_for_class(exported_classes, class.name, exp,
                                                  TRUE, processed)
               IN  /\ r.err # ""
                   /\ \A c \in r.classes : NumConstructors(c) <= 1

\* a second constructor export of a class has made the generation fail,
\* after a constructor and another member were written
C20_Witness ==
    /\ gen = [repeated |-> TRUE, result |-> "Err"]
    /\ \E class \in exported_classes :
           /\ class.has_constructor
           /\ NumConstructors(class) = 1
           /\ NumMembers(class) = 2

-----------------------------------------------------------------------------
(* C21 *)

\* the number of places of the text where the piece occurs
Occurrences(text, piece) ==
    Cardinality({ i \in 1 .. (Len(text) - Len(piece) + 1) :
                    SubSeq(text, i, i + Len(piece) - 1) = piece })

\* the class text and the declaration text that write_class emits for a
\* class still to be written, when Js2Rust accepts every field
Emitted(class) ==
    LET r == write_class(Context, exported_classes, typescript, class.name, class, "")
    IN  [js |-> r.ctx.globals[Len(r.ctx.globals)].args[2],
         ts |-> r.typescript[Len(r.typescript)],
         err |-> r.err]

\* C21: for every field of an exported class whose getter descriptor exists,
\* the emitted class has exactly one getter; it has a setter iff the field is
\* not read-only, and the declaration marks the field `readonly` iff it is
\* read-only.  Stated of every class that write_classes is about to write.
C21_FieldAccessors ==
    \A class \in classes_left :
        LET e == Emitted(class)
        IN  /\ e.err = ""
            /\ \A k \in 1 .. Len(class.fields) :
                   LET field == class.fields[k]
                   IN  describe_field(field.name) # "None" =>
                           /\ Occurrences(e.js, "get " \o field.name \o "(") = 1
                           /\ Occurrences(e.js, "set " \o field.name \o "(")
                                  = (IF field.readonly THEN 0 ELSE 1)
                           /\ Occurrences(e.ts, field.name \o ": ") = 1
                           /\ Occurrences(e.ts, "readonly " \o field.name \o ": ")
                                  = (IF field.readonly THEN 1 ELSE 0)

\* the class with a read-only and a read-write field has been written, after
\* a method was generated for it
C21_Witness ==
    /\ pc = "bind_shims"
    /\ classes_left = {}
    /\ \E k \in 1 .. Len(typescript) :
           /\ Occurrences(typescript[k], "readonly x: ") = 1
           /\ Occurrences(typescript[k], "y: ") = 1
           /\ Occurrences(typescript[k], "get(") = 1

-----------------------------------------------------------------------------
(* C24 *)

\* the texts of the classes of that name that export() has pushed to the
\* glue
ClassTexts(name) ==
    { globals[k].args[2] :
        k \in { j \in 1 .. Len(globals) :
                  /\ globals[j].text = "export {}"
                  /\ globals[j].args[1] = name } }

\* a class whose entry holds wrap_needed when write_classes takes the
\* registry is written with the factory
RequiredBeforeIsWrapped ==
    \A class \in classes_left :
        class.wrap_needed =>
            Occurrences(Emitted(class).js, "static __wrap(ptr)") = 1

\* a class whose wrap was required while the classes were written has the
\* factory in its text once all the classes are written
RequiredDuringIsWrapped ==
    pc = "bind_shims" =>
        \A entry \in exported_classes :
            entry.wrap_needed =>
                \E text \in ClassTexts(entry.name) :
                    Occurrences(text, "static __wrap(ptr)") = 1

\* C24: every class for which some generation step called
\* require_class_wrap, before or during the finalization of the classes, is
\* emitted with a static __wrap(ptr) factory; no wrap requirement is lost.
C24_NoWrapRequirementLost ==
    /\ RequiredBeforeIsWrapped
    /\ RequiredDuringIsWrapped

-----------------------------------------------------------------------------
(* C25 *)

\* the number of class texts of that name in the glue
TimesFinalized(name) ==
    Cardinality({ j \in 1 .. Len(globals) :
                    /\ globals[j].text = "export {}"
                    /\ globals[j].args[1] = name })

\* a step that adds fields to the entry of a class finds no method in it
FieldsBeforeMethods ==
    \A name \in ClassNames :
        Len(ClassEntry(exported_classes', name).fields)
            > Len(ClassEntry(exported_classes, name).fields)
        => ClassEntry(exported_classes, name).contents = <<>>

\* no step adds a field or a method to a class whose text is in the glue
NothingAddedAfterFinalized ==
    \A name \in ClassNames :
        TimesFinalized(name) > 0 =>
            /\ Len(ClassEntry(exported_classes', name).fields)
                   <= Len(ClassEntry(exported_classes, name).fields)
            /\ Len(ClassEntry(exported_classes', name).contents)
                   <= Len(ClassEntry(exported_classes, name).contents)

\* a class is written at most once, a class still to be written has no text
\* yet, and write_classes ends with every class written
FinalizedOnce ==
    /\ \A name \in ClassNames : TimesFinalized(name) <= 1
    /\ \A class \in classes_left : TimesFinalized(class.name) = 0
    /\ pc = "bind_shims" => classes_left = {}

\* the two parts of the lifecycle that the generator keeps
C25_FinalizedOnceAndClosed ==
    [][NothingAddedAfterFinalized]_vars /\ []FinalizedOnce

\* C25: each exported type follows the lifecycle Declared, field additions,
\* method additions, Finalized: all the fields of a class are added before
\* any of its methods, each class is finalized exactly once, and nothing is
\* added to a class after it is finalized.
C25_Lifecycle ==
    /\ [][FieldsBeforeMethods]_vars
    /\ [][NothingAddedAfterFinalized]_vars
    /\ []FinalizedOnce

-----------------------------------------------------------------------------
(* C29 *)

\* C29: when the descriptor interpreter yields no descriptor for an export,
\* free function or member of a class, the binding is skipped: generate_export
\* returns Ok and leaves the glue, the declarations and the class registry as
\* they are, so that the loop goes on with the following bindings.
C29_UndescribedExportSkipped ==
    (pc = "generate" /\ gen.result = "Ok") =>
        \A exp \in BindingExports, processed \in BOOLEAN :
            LET r == generate_export(Context, exported_classes, typescript,
                                     exp.class, exp, FALSE, processed)
            IN  /\ r.err = ""
                /\ r.ctx = Context
                /\ r.typescript = typescript
                /\ r.classes = exported_classes

\* bindings were generated for a free function and for a member of a class,
\* and run on to the end of finalize, while the export greet has none
C29_Witness ==
    /\ pc = "done"
    /\ Bound(CHOOSE exp \in BindingExports : exp.name = "add")
    /\ ~Bound(CHOOSE exp \in BindingExports : exp.name = "greet")
    /\ \E j \in 1 .. Len(globals) :
           /\ Len(globals[j].args) = 2
           /\ globals[j].args[1] = "Foo"
           /\ Occurrences(globals[j].args[2], "wasm.Foo_get(") = 1

-----------------------------------------------------------------------------
(* C30 *)

\* the error that generate returned names a binding of the program that has
\* not been bound: an export, or a static import that was being generated
ErrorNamesBinding ==
    \/ \E exp \in BindingExports :
           /\ Occurrences(error, "Rust export " \o exp.name \o ":") = 1
           /\ ~Bound(exp)
    \/ \E import \in BindingImports :
           /\ Occurrences(error, "JS import " \o import.name \o ":") = 1
           /\ import.shim \in imported_statics
           /\ \A j \in 1 .. Len(globals) :
                  Len(globals[j].args) = 2 => globals[j].args[1] # import.shim

\* C30: a fatal generation error aborts the run at the first failing
\* binding: generate or finalize returns an error, no output pair is
\* returned, no later binding is processed, and the error of an export or
\* import binding names that binding.  No step is taken from a state in
\* which a step has failed, such a state is not the end of finalize, and
\* the error of a failed loop of generate names the binding.
C30_FatalErrorAborts ==
    /\ [][gen.result = "Ok"]_vars
    /\ [](gen.result = "Err" => pc \in {"generate", "imports", "failed"})
    /\ []((gen.result = "Err" /\ pc \in {"generate", "imports"}) => ErrorNamesBinding)

\* generate has failed at the second constructor of Foo, after the binding
\* of a free function
C30_Witness ==
    /\ gen.result = "Err"
    /\ pc = "generate"
    /\ Occurrences(error, "with_value") = 1
    /\ Bound(CHOOSE exp \in BindingExports : exp.name = "add")

-----------------------------------------------------------------------------
(* C26 *)

\* the handle is a handle of the slab whose cell holds a closure
ClosureHandle(h) ==
    /\ ~IsOdd(h)
    /\ Shr1(h) >= NumInitial
    /\ IsCell(SlabGet(Cur, Num(Shr1(h))))
    /\ IsClosure(SlabGet(Cur, Num(Shr1(h))).obj)

\* the glue is finished and exports both shims
ShimsCallable ==
    /\ pc = "done"
    /\ ShimEmitted("__wbindgen_cb_drop")
    /\ ShimEmitted("__wbindgen_cb_forget")

\* called with the handle h of a closure, __wbindgen_cb_forget drops one
\* reference and leaves the fields of every closure as they are, and
\* __wbindgen_cb_drop sets the closure's `a` and `b` to 0 and drops one
\* reference
Disposes(h) ==
    LET closure == SlabGet(Cur, Num(Shr1(h))).obj
        forget  == wbindgen_cb_forget(Cur, original, h)
        drop    == wbindgen_cb_drop(globals, Cur, original, h)
    IN  /\ forget.err = ""
        /\ forget.st = dropRef(Cur, h).st
        /\ forget.heap = original
        /\ drop.err = ""
        /\ drop.heap[closure] = [a |-> 0, b |-> 0]
        /\ \A v \in Values \ {closure} : drop.heap[v] = original[v]
        /\ drop.st = dropRef(Cur, h).st

\* C26: __wbindgen_cb_forget(h) only drops one reference of h and leaves the
\* closure's `a` and `b` pointer fields unchanged; __wbindgen_cb_drop(h)
\* sets both `a` and `b` to 0 and then drops one reference of h.
C26_ClosureDisposal ==
    ShimsCallable => \A h \in Handles : ClosureHandle(h) => Disposes(h)

\* in a glue that holds getObject, because another shim asked for it, both
\* shims dispose of the closure
DisposalWithGetObject ==
    (ShimsCallable /\ GetObjectDefined(globals)) =>
        \A h \in Handles : ClosureHandle(h) => Disposes(h)

\* in a glue without getObject __wbindgen_cb_drop throws on every handle,
\* zeroes no field and drops no reference
DropThrowsWithoutGetObject ==
    (ShimsCallable /\ ~GetObjectDefined(globals)) =>
        \A h \in Handles :
            wbindgen_cb_drop(globals, Cur, original, h)
                = [st |-> Cur, heap |-> original, err |-> "ReferenceError"]

-----------------------------------------------------------------------------
(* C27 *)

\* C27: after any interleaving of memory growth and accessor calls, every
\* accessor call returns a view whose buffer is the memory's current buffer;
\* a cached view is returned only while its buffer is still the current one.
C27_ViewOfCurrentBuffer ==
    \A name \in Accessors :
        LET r == accessor(cache[name], memory_buffer, ViewOf(name))
        IN  /\ r.ret.t = "view"
            /\ r.ret.buffer = memory_buffer
            /\ r.ret.js = ViewOf(name)
            /\ r.ret = r.cache
            /\ ~r.created => (cache[name] # Null /\ cache[name].buffer = memory_buffer)

\* the memory has grown twice; one accessor was called since and holds a
\* view of the current buffer, the other holds a view of a replaced buffer
C27_Witness ==
    /\ memory_buffer = 2
    /\ cache["getUint8Memory"] # Null
    /\ cache["getUint8Memory"].buffer = 2
    /\ cache["getUint32Memory"] # Null
    /\ cache["getUint32Memory"].buffer < 2

-----------------------------------------------------------------------------
(* C28 *)

\* the run is that of a nominal method import whose target property the
\* host lacks
NominalAbsent ==
    /\ shim_run.phase # "none"
    /\ ~shim_run.import.structural
    /\ shim_run.host = "absent"

\* C28: for every nominal method import - regular method, getter or setter,
\* static or instance - whose target property is absent, the failure is
\* raised when the shim is called, with a message naming the target; the
\* shim never returns an undefined result instead and the failure does not
\* occur earlier than the call.
C28_FailureAtCall ==
    NominalAbsent =>
        /\ shim_run.phase \in {"generated", "loaded", "call_failed"}
        /\ shim_run.phase = "call_failed" =>
               Occurrences(shim_run.fault, shim_run.target) = 1

\* the part of the claim that holds: a nominal import of a regular instance
\* method whose property is absent loads, and fails at the call with the
\* message that names the target
InstanceMethodFailsAtCall ==
    (NominalAbsent /\ shim_run.import.op.kind = "Regular"
                   /\ ~shim_run.import.op.is_static) =>
        /\ shim_run.phase \in {"generated", "loaded", "call_failed"}
        /\ shim_run.phase = "call_failed" =>
               shim_run.fault = "Error: wasm-bindgen: Foo.prototype.bar does not exist"

-----------------------------------------------------------------------------
(* C22 *)

\* free() on a live wrapper leaves its pointer field at 0, and the
\* destructor never runs on a pointer that a live wrapper still holds
ZeroedBeforeDestructor ==
    /\ ~runtime.dangling
    /\ \A obj \in Wrappers :
           runtime.instances[obj].state = "live" =>
               /\ free(runtime, obj).instances[obj].ptr = 0
               /\ ~free(runtime, obj).dangling

\* free() on a wrapper that was freed raises no fault and does not call the
\* destructor on a pointer other than 0
SecondFreeSafe ==
    \A obj \in Wrappers :
        (/\ runtime.instances[obj].state = "live"
         /\ runtime.instances[obj].frees > 0) =>
            /\ free(runtime, obj).fault = ""
            /\ \A ptr \in Ptrs \ {0} :
                   free(runtime, obj).calls[ptr] = runtime.calls[ptr]

\* C22: free() sets the instance's pointer field to 0 before the module's
\* destructor export is invoked, and a second free() on the same instance
\* is a safe no-op: it raises no fault and does not invoke the destructor
\* on the original pointer again, with automatic finalization off and with
\* it on.
C22_DoubleFreeSafe ==
    /\ ZeroedBeforeDestructor
    /\ SecondFreeSafe

\* without weak references the second free() is safe
SecondFreeSafeWithoutWeakRefs ==
    ~config.weak_refs => SecondFreeSafe

-----------------------------------------------------------------------------
(* C23 *)

\* C23: with automatic finalization on, for every interleaving of an
\* explicit free() and the finalizer of the same wrapped instance, the
\* destructor export is invoked at most once for that instance's pointer:
\* an explicit free() cancels and removes the pending registration before
\* the destructor runs.
C23_DestructorAtMostOnce ==
    config.weak_refs =>
        /\ \A obj \in Wrappers : runtime.calls[PtrOf(obj)] <= 1
        /\ \A obj \in Wrappers :
               (/\ runtime.instances[obj].state = "live"
                /\ runtime.instances[obj].ptr # 0) =>
                   LET r == free(runtime, obj)
                   IN  /\ r.weakrefs[obj].state = "dropped"
                       /\ r.map[PtrOf(obj)] = "undefined"
                       /\ r.calls[PtrOf(obj)] = 1

\* one wrapper was freed by the program and then collected, the other was
\* collected and freed by its finalizer; the destructor ran once for each
C23_Witness ==
    /\ config.weak_refs
    /\ runtime.instances["w1"] = [state |-> "collected", ptr |-> 0, frees |-> 1]
    /\ runtime.weakrefs["w1"].state = "dropped"
    /\ runtime.instances["w2"] = [state |-> "collected", ptr |-> 2, frees |-> 0]
    /\ runtime.weakrefs["w2"].state = "dropped"
    /\ runtime.calls = [ptr \in Ptrs |-> IF ptr = 0 THEN 0 ELSE 1]

-----------------------------------------------------------------------------
(* C31 *)

\* the text s' is the text s with items appended
Appended(s, t) == Len(t) >= Len(s) /\ SubSeq(t, 1, Len(s)) = s

\* the texts change by appending, and the sets and the maps of the context
\* other than the class registry keep their entries
ContextGrows ==
    /\ Appended(globals, globals')
    /\ Appended(imports, imports')
    /\ Appended(typescript, typescript')
    /\ exposed_globals \subseteq exposed_globals'
    /\ required_internal_exports \subseteq required_internal_exports'
    /\ imported_statics \subseteq imported_statics'
    /\ imported_names \subseteq imported_names'
    /\ \A u \in imported_identifiers :
           \E v \in imported_identifiers' : v.name = u.name /\ v.cnt >= u.cnt

\* the class registry keeps the entry of every class
RegistryGrows ==
    \A class \in exported_classes :
        \E kept \in exported_classes' : kept.name = class.name

\* the part of the claim that holds on every step of generate and finalize
ContextAlwaysGrows == [][ContextGrows]_vars

\* C31: through all generation passes up to the production of the output
\* the generation state only grows: the glue, import and declaration texts
\* change only by appending, and the emitted-helper set, the required-export
\* set, the imported sets, the alias map and the class registry never lose
\* an entry.
C31_StateOnlyGrows == [][ContextGrows /\ RegistryGrows]_vars

-----------------------------------------------------------------------------
(* C32 *)

\* C32: under no_modules, import_name for an import that names a module
\* returns an error and leaves imported_names, imported_identifiers and the
\* import section as they are; an import without a module is resolved.
C32_NoModulesRejectsModuleImports ==
    config.no_modules =>
        \A import \in ImportInputs, item \in ImportItems :
            LET r == import_name(ImportContext, import, item)
            IN  IF import.module # NoModule
                THEN /\ r.err # ""
                     /\ r.ctx = ImportContext
                ELSE /\ r.err = ""
                     /\ r.ret = import_access(name_to_import(import, item), import, item)
                     /\ \E e \in r.ctx.imported_names :
                            /\ e.module = NoModule
                            /\ e.name = name_to_import(import, item)
                     /\ r.ctx.imports = imports

\* under no_modules an import of a module has failed after imports of the
\* global scope were resolved
C32_Witness ==
    /\ config.no_modules
    /\ gen.result = "Err"
    /\ Cardinality(imported_names) = 2
    /\ imports = <<>>

-----------------------------------------------------------------------------
(* C33: the type test of a debug build on the cell of a handle.             *)

\* the even handles whose cell holds a free-list link
FreeHandles == { h \in Handles : ~IsOdd(h) /\ IsFreeCell(h) }

\* the call faults with 'corrupt slab' and the table is the one it was given
FaultsCorrupt(r) == r.err = "corrupt slab" /\ r.st = Cur

\* C33: in a debug build getObject, dropRef and cloneRef, applied to an even
\* handle whose slab cell is free, throw 'corrupt slab' and leave slab and
\* slab_next as they were.
C33_FreeCellFaults ==
    config.debug =>
        \A h \in FreeHandles :
            /\ FaultsCorrupt(getObject(Cur, h))
            /\ FaultsCorrupt(dropRef(Cur, h))
            /\ FaultsCorrupt(wbindgen_object_clone_ref(Cur, h))

\* a debug build in which a cell was freed while another is live
C33_Witness ==
    /\ config.debug
    /\ \E h \in FreeHandles : slab_next = Num(Shr1(h))
    /\ \E i \in (NumInitial + 1) .. Len(slab) : IsCell(slab[i])

-----------------------------------------------------------------------------
(* C34: the order of the helper definitions in the glue text.               *)

\* the positions in Context.globals of the items with the text t
PositionsOf(t) == { i \in 1 .. Len(globals) : globals[i].text = t }

\* the items with the text t whose first formatted argument is the name n
PositionsOfNamed(t, n) ==
    { i \in PositionsOf(t) : Len(globals[i].args) > 0 /\ globals[i].args[1] = n }

\* every item at a position of `dependents` has one of `needed` before it
DefinedBefore(needed, dependents) ==
    \A j \in dependents : \E i \in needed : i < j

SlabText   == PositionsOf("const slab = [{}];")
U32CvtText == PositionsOfNamed("const {} = new Uint32Array(2);", "u32CvtShim")

\* C34: a helper whose definition reads another helper when the glue is
\* loaded has that helper's definition before its own in the glue text:
\* `const slab` before `let slab_next = slab.length`, `const u32CvtShim`
\* before the BigInt64Array and the BigUint64Array over its buffer.
C34_DependencyOrder ==
    /\ DefinedBefore(SlabText, PositionsOf("let slab_next = slab.length;"))
    /\ DefinedBefore(U32CvtText,
                     PositionsOf("const {} = new BigInt64Array({}.buffer);"))
    /\ DefinedBefore(U32CvtText,
                     PositionsOf("const {} = new BigUint64Array({}.buffer);"))

\* slab_next was requested first and a 64-bit buffer after it
C34_Witness ==
    /\ Len(globals) >= 4
    /\ PositionsOf("let slab_next = slab.length;") # {}
    /\ PositionsOf("const {} = new BigInt64Array({}.buffer);") # {}
    /\ globals[1].text = "const slab = [{}];"

-----------------------------------------------------------------------------
(* C35: the free list that starts at slab_next.                             *)

\* the indices of the dynamic cells that hold a free-list link
FreeCells == { i \in NumInitial .. (Len(slab) - 1) : IsNumber(slab[i + 1]) }

\* the indices of the dynamic cells that hold a value
LiveCells == { i \in NumInitial .. (Len(slab) - 1) : ~IsNumber(slab[i + 1]) }

\* Follow the links from `link`: ok if the walk reaches slab.length through
\* cells that hold a link, none of them twice; cells are the ones visited.
RECURSIVE FreeChain(_, _)
FreeChain(link, seen) ==
    IF ~IsNumber(link) THEN [ok |-> FALSE, cells |-> seen]
    ELSE IF link.n = Len(slab) THEN [ok |-> TRUE, cells |-> seen]
    ELSE IF link.n \in seen \/ link.n \notin FreeCells
         THEN [ok |-> FALSE, cells |-> seen]
    ELSE FreeChain(slab[link.n + 1], seen \cup {link.n})

\* C35: while dropRef is applied to live handles only, the links from
\* slab_next visit every free cell (index >= 4) exactly once, visit no live
\* cell, make no cycle and end at slab.length.
C35_FreeListWellFormed ==
    LET chain == FreeChain(slab_next, {})
    IN  /\ chain.ok
        /\ chain.cells = FreeCells
        /\ chain.cells \cap LiveCells = {}

\* two cells were freed, the higher one last, so the list runs downwards
\* before it ends at slab.length
C35_Witness ==
    /\ Cardinality(FreeCells) = 2
    /\ \E i \in FreeCells : slab_next = Num(i) /\ slab[i + 1].n \in FreeCells
                            /\ slab[i + 1].n < i

-----------------------------------------------------------------------------
(* C36: no cell is left live when every reference was given back.           *)

\* the module holds no reference: each handle addHeapObject or cloneRef
\* returned was dropped or taken once per reference
Balanced == \A h \in DynamicHandles : ledger.held[h] = 0

\* C36: when every handle returned by addHeapObject or cloneRef was dropped
\* once per reference held, every cell at index >= 4 is free and
\* assertSlabEmpty returns; assertSlabEmpty throws whenever a cell at index
\* >= 4 holds a value.
C36_NoLeakWhenBalanced ==
    /\ Balanced => LiveCells = {}
    /\ (config.debug /\ Balanced) => assertSlabEmpty(Cur).err = ""
    /\ (config.debug /\ LiveCells # {}) =>
           assertSlabEmpty(Cur).err = "slab is not currently empty"

\* two cells were live at once and
\* every reference was given back
C36_Witness ==
    /\ config.debug
    /\ Balanced
    /\ ledger.peak = 2
    /\ Cardinality(FreeCells) = 2

-----------------------------------------------------------------------------
(* C37: the slab grows only when more cells are live than ever before.      *)

\* C37: while dropRef is applied to live handles only, slab.length is 4 plus
\* the largest number of handles that were live at the same time so far.
C37_SlabLengthIsPeak == Len(slab) = NumInitial + ledger.peak

\* a cell was freed and taken again while another stayed live
C37_Witness ==
    /\ ledger.peak = 2
    /\ Len(slab) = NumInitial + 2
    /\ LiveCount(slab) = 1
    /\ slab_next # Num(Len(slab))

-----------------------------------------------------------------------------
(* C38: the emitted-helper set and the glue text.                           *)

\* the text of the definition that the helper guarded by the key e appends
HelperText(e) ==
    CASE e = "stack"               -> "const stack = [];"
      [] e = "slab"                -> "const slab = [{}];"
      [] e = "slab_next"           -> "let slab_next = slab.length;"
      [] e = "drop_ref"            -> "function dropRef(idx) { {} {} {} }"
      [] e = "get_object"          -> "function getObject(idx) { {} }"
      [] e = "borrowed_objects"    -> "function addBorrowedObject(obj) { }"
      [] e = "take_object"         -> "function takeObject(idx) { }"
      [] e = "add_heap_object"     -> "function addHeapObject(obj) { {} }"
      [] e \in {"getUint8Memory", "getUint32Memory"} ->
            "let cache{name} = null; function {name}() { new {js}({mem}.buffer) }"
      [] e \in {"getArrayU8FromWasm", "getArrayU32FromWasm"} ->
            "function {name}(ptr, len) { {mem}().subarray(ptr / {size}, ..) }"
      [] e = "get_array_js_value_from_wasm" ->
            "function getArrayJsValueFromWasm(ptr, len) { }"
      [] e = "text_encoder"        -> "let cachedEncoder = new TextEncoder('utf-8');"
      [] e = "text_decoder"        -> "let cachedDecoder = new TextDecoder('utf-8');"
      [] e = "get_string_from_wasm" ->
            "function getStringFromWasm(ptr, len) { getUint8Memory().{}(ptr, ptr + len) }"
      [] e = "pass_string_to_wasm" -> "function passStringToWasm(arg) { {} }"
      [] e = "passArray8ToWasm"    ->
            "function {}(arg) { {}().set(arg, ptr / {size}) }"
      [] e = "pass_array_jsvalue"  -> "function passArrayJsValueToWasm(array) { }"
      [] e = "global_argument_ptr" -> "function globalArgumentPtr() { }"
      [] e = "get_global_argument" -> "function getGlobalArgument(arg) { }"
      [] e = "u32CvtShim"          -> "const {} = new Uint32Array(2);"
      [] e = "int64CvtShim"        -> "const {} = new BigInt64Array({}.buffer);"
      [] e = "uint64CvtShim"       -> "const {} = new BigUint64Array({}.buffer);"

\* the helpers whose key is the name formatted into a shared template
NamedHelpers ==
    { "getUint8Memory", "getUint32Memory", "getArrayU8FromWasm", "getArrayU32FromWasm",
      "passArray8ToWasm", "u32CvtShim", "int64CvtShim", "uint64CvtShim" }

\* the definition of the helper is in Context.globals
Defined(e) ==
    \E i \in 1 .. Len(globals) :
        /\ globals[i].text = HelperText(e)
        /\ e \in NamedHelpers => globals[i].args[1] = e

\* every key has its definition, every required name is an export
GuardMatchesGlue ==
    /\ \A e \in exposed_globals : Defined(e)
    /\ \A name \in required_internal_exports : ~Absent(name)

\* as long as no call has returned an error the guard and the glue agree
GuardMatchesGlueWhileOk == gen.result = "Ok" => GuardMatchesGlue

\* C38: in every reachable generation state, the states after an expose_*
\* call returned an error included, each key of exposed_globals has its
\* helper's definition in the glue text and each name of
\* required_internal_exports is an export of the module.
C38_GuardOnlyForEmitted == GuardMatchesGlue

-----------------------------------------------------------------------------
(* C39: the internal shims finalize emits and the placeholder imports.      *)

\* the names finalize calls bind with before the dead-code pass, and all
EarlyShims == { Shims[i] : i \in 1 .. Len(Shims) }
BoundShims == EarlyShims \cup {"__wbindgen_throw"}

\* an import of the module has been redirected to the glue module
OriginsRewritten ==
    \E k \in 1 .. Len(module.imports) : module.imports[k].module = GlueOrigin

\* the step adds the export of the shim to the glue
Emits(name) == Exported(globals', name) /\ ~Exported(globals, name)

\* C39: finalize emits the shim of a name bind is called with if and only if
\* the module has the placeholder import of that name when bind tests it;
\* bind tests it before the origins of the imports are rewritten; no shim is
\* emitted for a name the module does not import, and once the bind calls
\* have returned every placeholder import they found has its shim.
C39_ShimIffPlaceholderImport ==
    /\ [](pc \in {"bind_shims", "bind_throw"} => ~OriginsRewritten)
    /\ [][ /\ \A name \in BoundShims :
                 Emits(name) =>
                     /\ wasm_import_needed(name)
                     /\ pc = IF name = "__wbindgen_throw" THEN "bind_throw"
                             ELSE "bind_shims"
           /\ (pc = "bind_shims" /\ pc' = "create_memory_export") =>
                 \A name \in EarlyShims :
                     Exported(globals', name) <=> wasm_import_needed(name)
           /\ (pc = "bind_throw" /\ pc' = "rewrite_imports") =>
                 (Exported(globals', "__wbindgen_throw")
                      <=> wasm_import_needed("__wbindgen_throw")) ]_vars

\* finalize has ended for a module that imported two shims: both are
\* exported by the glue and the import of throw names the glue module
C39_Witness ==
    /\ pc = "done"
    /\ Exported(globals, "__wbindgen_string_new")
    /\ Exported(globals, "__wbindgen_throw")
    /\ ~Exported(globals, "__wbindgen_cb_drop")
    /\ \E k \in 1 .. Len(module.imports) :
           module.imports[k] = Import(GlueOrigin, "__wbindgen_throw")

====
